---- MODULE Spec2Model ----
(***************************************************************************)
(* MineBot: the decision-and-execution engine.                             *)
(*                                                                         *)
(*   src/src/core/brain.js    think, cleanJsonResponse, validateResponse   *)
(*   src/src/core/actions.js  executeAction and the per-action handlers    *)
(*   src/src/core/goals.js    getNextAction, the deterministic planner     *)
(*   src/src/index.js         main, createBot, cognitiveLoop,              *)
(*                            start/stopCognitiveLoop                      *)
(*   src/src/index-baritone.js  main, getPerception, cognitiveLoop         *)
(*   src/minecraft-mod/.../HttpCommandServer.java  BaritoneController      *)
(*                                                                         *)
(* One step of the model is one macrotask of the JavaScript event loop: a  *)
(* timer callback, an event handler or the settling of an awaited external *)
(* promise, followed by every continuation that runs without yielding to   *)
(* the event loop again.                                                   *)
(***************************************************************************)
EXTENDS Integers, Sequences, FiniteSets, TLC

(***************************************************************************)
(* Bounds of the model                                                     *)
(***************************************************************************)
\* tick bodies that can be represented in flight at the same time
MaxTicks == 2
\* callers of the exported executeAction other than the loop
MaxExt == 1
\* one-shot start timers that can be pending at the same time
MaxOneShots == 1
\* item stacks in the inventory listing the planner is run with
MaxStacks == 4
\* plan-then-execute cycles of one run
MaxCycles == 14
\* entities around the agent, the agent's own entity not counted
MaxEntities == 2
\* 30 second timers of fights that have returned and that can be pending at the same time
MaxFightTimeouts == 1
\* tick bodies of the Baritone loop that can be represented in flight at the same time
MaxBlTicks == 2
\* threads of the mod's HTTP pool that can be inside a handler at the same time
MaxHttp == 2

(***************************************************************************)
(* Text of a reasoning-service reply, as a sequence of lexical tokens.     *)
(*   fence  ```          json  the word json right after a fence           *)
(*   nl     line break   sp    blank                                       *)
(*   w      a word of prose without braces or backticks                    *)
(*   lb rb  { }          lbr rbr  [ ]       comma  ,                       *)
(*   member  "k": value  scalar   a JSON value that is not an object       *)
(* A value has a type s (str, num, null, undef) and a content v.           *)
(***************************************************************************)
Tok(t) == [t |-> t, k |-> "", s |-> "", v |-> ""]
Member(k, s, v) == [t |-> "member", k |-> k, s |-> s, v |-> v]
Scalar(s, v) == [t |-> "scalar", k |-> "", s |-> s, v |-> v]
Val(s, v) == [s |-> s, v |-> v]
Str(v) == Val("str", v)
Undefined == Val("undef", "")

\* String.prototype.indexOf / lastIndexOf for a one-token needle: 0-based, -1 if absent
IndexOf(text, t) ==
  IF \E i \in 1..Len(text) : text[i].t = t
  THEN (CHOOSE i \in 1..Len(text) : text[i].t = t /\ \A j \in 1..(i-1) : text[j].t # t) - 1
  ELSE -1

LastIndexOf(text, t) ==
  IF \E i \in 1..Len(text) : text[i].t = t
  THEN (CHOOSE i \in 1..Len(text) : text[i].t = t /\ \A j \in (i+1)..Len(text) : text[j].t # t) - 1
  ELSE -1

\* String.prototype.substring(from, to), 0-based, to exclusive
Substring(text, from, to) == SubSeq(text, from + 1, to)

\* text.replace(/```json\n?/g, '')
RECURSIVE ReplaceFenceJson(_)
ReplaceFenceJson(text) ==
  IF text = <<>> THEN <<>>
  ELSE IF Len(text) >= 2 /\ text[1].t = "fence" /\ text[2].t = "json"
       THEN IF Len(text) >= 3 /\ text[3].t = "nl"
            THEN ReplaceFenceJson(SubSeq(text, 4, Len(text)))
            ELSE ReplaceFenceJson(SubSeq(text, 3, Len(text)))
       ELSE <<Head(text)>> \o ReplaceFenceJson(Tail(text))

\* text.replace(/```\n?/g, '')
RECURSIVE ReplaceFence(_)
ReplaceFence(text) ==
  IF text = <<>> THEN <<>>
  ELSE IF text[1].t = "fence"
       THEN IF Len(text) >= 2 /\ text[2].t = "nl"
            THEN ReplaceFence(SubSeq(text, 3, Len(text)))
            ELSE ReplaceFence(Tail(text))
       ELSE <<Head(text)>> \o ReplaceFence(Tail(text))

\* text.replace(/\n/g, ' ')
ReplaceNewlines(text) == [i \in 1..Len(text) |-> IF text[i].t = "nl" THEN Tok("sp") ELSE text[i]]

IsSpace(tok) == tok.t \in {"sp", "nl"}

\* String.prototype.trim
RECURSIVE Trim(_)
Trim(text) ==
  IF text = <<>> THEN <<>>
  ELSE IF IsSpace(text[1]) THEN Trim(Tail(text))
  ELSE IF IsSpace(text[Len(text)]) THEN Trim(SubSeq(text, 1, Len(text) - 1))
  ELSE text

\* brain.js cleanJsonResponse, the slice that drops what precedes the first {
SliceFromFirstBrace(text) ==
  LET firstBrace == IndexOf(text, "lb")
  IN IF firstBrace > 0 THEN Substring(text, firstBrace, Len(text)) ELSE text

\* brain.js cleanJsonResponse, the slice that drops what follows the last }
KeepAllAfterLastBrace(text) == text
SliceToLastBrace(text) ==
  LET lastBrace == LastIndexOf(text, "rb")
  IN IF lastBrace # -1 /\ lastBrace < Len(text) - 1
     THEN Substring(text, 0, lastBrace + 1)
     ELSE text

cleanJsonResponse(text) ==
  Trim(ReplaceNewlines(SliceToLastBrace(SliceFromFirstBrace(ReplaceFence(ReplaceFenceJson(text))))))

(***************************************************************************)
(* JSON.parse on the token language.  Blanks between tokens are            *)
(* insignificant; anything that is not exactly one JSON value is a         *)
(* SyntaxError.  An object keeps, for each of the three keys the program   *)
(* reads, the value of its last member with that key.                      *)
(***************************************************************************)
DropSpaces(text) == SelectSeq(text, LAMBDA tok : ~IsSpace(tok))

IsMemberList(ms) ==
  \/ ms = <<>>
  \/ /\ Len(ms) % 2 = 1
     /\ \A i \in 1..Len(ms) : IF i % 2 = 1 THEN ms[i].t = "member" ELSE ms[i].t = "comma"

Lookup(ms, key) ==
  IF \E i \in 1..Len(ms) : ms[i].t = "member" /\ ms[i].k = key
  THEN LET i == CHOOSE i \in 1..Len(ms) :
                  /\ ms[i].t = "member" /\ ms[i].k = key
                  /\ \A j \in (i+1)..Len(ms) : ~(ms[j].t = "member" /\ ms[j].k = key)
       IN Val(ms[i].s, ms[i].v)
  ELSE Undefined

Parsed(kind, a, t, r, v) == [kind |-> kind, action |-> a, target |-> t, reason |-> r, v |-> v]
SyntaxError == [ok |-> FALSE, value |-> Parsed("none", Undefined, Undefined, Undefined, "")]

JSONparse(text) ==
  LET toks == DropSpaces(text)
      n == Len(toks)
  IN IF n = 1 /\ toks[1].t = "scalar"
     THEN [ok |-> TRUE, value |-> Parsed(toks[1].s, Undefined, Undefined, Undefined, toks[1].v)]
     ELSE IF n = 2 /\ toks[1].t = "lbr" /\ toks[2].t = "rbr"
     THEN [ok |-> TRUE, value |-> Parsed("array", Undefined, Undefined, Undefined, "")]
     ELSE IF n >= 2 /\ toks[1].t = "lb" /\ toks[n].t = "rb" /\ IsMemberList(SubSeq(toks, 2, n - 1))
     THEN LET ms == SubSeq(toks, 2, n - 1)
          IN [ok |-> TRUE,
              value |-> Parsed("object", Lookup(ms, "action"), Lookup(ms, "target"),
                               Lookup(ms, "reason"), "")]
     ELSE SyntaxError

(***************************************************************************)
(* brain.js validateResponse                                               *)
(***************************************************************************)
\* JavaScript truthiness of a value
Falsy(val) ==
  \/ val.s \in {"undef", "null"}
  \/ val.s = "str" /\ val.v = ""
  \/ val.s = "num" /\ val.v = "0"

validActionsAll == {"mine", "craft", "place", "explore", "fight", "eat", "chat", "wait", "follow"}
validActions == {"mine", "craft", "place", "explore", "fight", "eat", "chat", "wait"}

Decision(a, t, r) == [action |-> a, target |-> t, reason |-> r]
Thrown(msg) == [threw |-> TRUE, msg |-> msg, decision |-> Decision("", Undefined, Undefined)]
Returned(d) == [threw |-> FALSE, msg |-> "", decision |-> d]

validateResponse(response) ==
  IF response.kind \notin {"object", "array"}
  THEN Thrown("Response is not a valid object")
  ELSE IF Falsy(response.action) \/ response.action.s # "str"
  THEN Thrown("Missing or invalid action field")
  ELSE IF response.action.v \notin validActions
  THEN Thrown("Invalid action")
  ELSE Returned(Decision(response.action.v,
                         IF response.target.s = "undef" THEN Str("") ELSE response.target,
                         IF Falsy(response.reason) THEN Str("No reason provided") ELSE response.reason))

(***************************************************************************)
(* brain.js think.  reply is the outcome of the axios.post call:           *)
(*   refused  rejected with code ECONNREFUSED                              *)
(*   timeout  rejected with code ETIMEDOUT                                 *)
(*   error    rejected with any other error                                *)
(*   notext   resolved, response.data.response is undefined                *)
(*   ok       resolved, response.data.response is reply.text               *)
(***************************************************************************)
Fallback(reason) == Decision("wait", Str("idle"), Str(reason))
ParseFallback == Fallback("LLM response parsing failed, waiting for next cycle")

\* the try block of think: lines 140-192
thinkTry(reply) ==
  IF reply.kind = "refused" THEN Thrown("connect ECONNREFUSED")
  ELSE IF reply.kind = "timeout" THEN Thrown("timeout exceeded")
  ELSE IF reply.kind = "error" THEN Thrown("Request failed")
  ELSE IF reply.kind = "notext" THEN Thrown("Cannot read properties of undefined")
  ELSE LET cleanedJson == cleanJsonResponse(reply.text)
           parsed == JSONparse(cleanedJson)
       IN IF ~parsed.ok THEN Returned(ParseFallback)
          ELSE validateResponse(parsed.value)

Resolved(d) == [status |-> "resolved", decision |-> d, msg |-> ""]
Rejected(msg) == [status |-> "rejected", decision |-> Decision("", Undefined, Undefined), msg |-> msg]

thinkNoCatch(reply) ==
  LET r == thinkTry(reply)
  IN IF r.threw THEN Rejected(r.msg) ELSE Resolved(r.decision)

\* think: the try block, and the catch of lines 194-215
think(reply) ==
  LET r == thinkTry(reply)
  IN IF r.threw THEN Resolved(Fallback(r.msg)) ELSE Resolved(r.decision)

(***************************************************************************)
(* goals.js: the deterministic planner.  Item and block names are strings; *)
(* the inventory listing is the sequence bot.inventory.items() returns.    *)
(***************************************************************************)
\* String.prototype.includes
Includes(name, part) ==
  \E i \in 1..(Len(name) - Len(part) + 1) : SubSeq(name, i, i + Len(part) - 1) = part

\* String.prototype.replace(part, by) with a string pattern: the first occurrence only
Replace(name, part, by) ==
  IF ~Includes(name, part) THEN name
  ELSE LET i == CHOOSE i \in 1..(Len(name) - Len(part) + 1) :
                  /\ SubSeq(name, i, i + Len(part) - 1) = part
                  /\ \A j \in 1..(i - 1) : SubSeq(name, j, j + Len(part) - 1) # part
       IN SubSeq(name, 1, i - 1) \o by \o SubSeq(name, i + Len(part), Len(name))

Item(name, count) == [name |-> name, count |-> count]

\* the names the test of goals.js:175-177 compares with
NamedLogs == {"oak_log", "birch_log", "spruce_log", "jungle_log", "acacia_log",
              "dark_oak_log", "mangrove_log", "cherry_log"}

IsLogName(name) == Includes(name, "_log") \/ name \in NamedLogs

IsPlankName(name) == Includes(name, "_planks")

IsIronName(name) == name = "raw_iron" \/ name = "iron_ore"

\* the sum of item.count over a listing
RECURSIVE SumCounts(_)
SumCounts(items) ==
  IF items = <<>> THEN 0 ELSE Head(items).count + SumCounts(Tail(items))

\* logTypes: the names of the log items, each once, in the order of the listing
RECURSIVE LogTypesOf(_, _)
LogTypesOf(items, logTypes) ==
  IF items = <<>> THEN logTypes
  ELSE LET name == Head(items).name
       IN LogTypesOf(Tail(items),
                     IF IsLogName(name) /\ \A i \in 1..Len(logTypes) : logTypes[i] # name
                     THEN Append(logTypes, name)
                     ELSE logTypes)

Has(items, name) == \E i \in 1..Len(items) : items[i].name = name

analyzeInventory(bot) ==
  LET items == bot.items
  IN [logs |-> SumCounts(SelectSeq(items, LAMBDA item : IsLogName(item.name))),
      planks |-> SumCounts(SelectSeq(items, LAMBDA item : IsPlankName(item.name))),
      sticks |-> SumCounts(SelectSeq(items, LAMBDA item : item.name = "stick")),
      cobblestone |-> SumCounts(SelectSeq(items, LAMBDA item : item.name = "cobblestone")),
      ironOre |-> SumCounts(SelectSeq(items, LAMBDA item : IsIronName(item.name))),
      hasCraftingTable |-> Has(items, "crafting_table"),
      hasWoodenPickaxe |-> Has(items, "wooden_pickaxe"),
      hasStonePickaxe |-> Has(items, "stone_pickaxe"),
      logTypes |-> LogTypesOf(items, <<>>)]

\* a block of the world around the agent: its name, its distance, and whether
\* bot.canSeeBlock answers true for it; bot.blocks lists the blocks nearest first
Block(name, dist, visible) == [name |-> name, dist |-> dist, visible |-> visible]
NoBlock == Block("", 0, FALSE)

NearRadius == 3
FarRadius == 32
FarCount == 5
LogRadius == 32

\* bot.findBlocks({matching, maxDistance, count}): the nearest count matching blocks in range
findBlocks(bot, name, maxDistance, count) ==
  LET all == SelectSeq(bot.blocks, LAMBDA b : b.name = name /\ b.dist <= maxDistance)
  IN SubSeq(all, 1, IF Len(all) < count THEN Len(all) ELSE count)

\* bot.findBlock({matching, maxDistance}): the nearest matching block in range, or null
findBlock(bot, name, maxDistance) ==
  LET found == findBlocks(bot, name, maxDistance, 1)
  IN IF found = <<>> THEN NoBlock ELSE found[1]

findNearbyCraftingTable(bot) ==
  IF "crafting_table" \notin bot.blocksByName THEN NoBlock
  ELSE LET table == findBlock(bot, "crafting_table", NearRadius)
       IN IF table # NoBlock /\ ~table.visible THEN NoBlock ELSE table

findDistantCraftingTable(bot) ==
  IF "crafting_table" \notin bot.blocksByName THEN NoBlock
  ELSE LET tables == findBlocks(bot, "crafting_table", FarRadius, FarCount)
           seen == SelectSeq(tables, LAMBDA b : b.visible)
       IN IF seen = <<>> THEN NoBlock ELSE seen[1]

\* the species list of goals.js:284, in its order
LogTypeList == <<"oak_log", "birch_log", "spruce_log", "jungle_log", "acacia_log",
                 "dark_oak_log", "cherry_log", "mangrove_log">>

findNearbyLogTypeFirstOfList(bot) == LogTypeList[1]

findNearbyLogType(bot) ==
  LET hits == SelectSeq(LogTypeList,
                        LAMBDA logType : /\ logType \in bot.blocksByName
                                         /\ findBlock(bot, logType, LogRadius) # NoBlock)
  IN IF hits = <<>> THEN "oak_log" ELSE hits[1]

getPlankTypeFromLogsOak(inv) == "oak_planks"

getPlankTypeFromLogs(inv) ==
  IF Len(inv.logTypes) = 0 THEN "oak_planks"
  ELSE Replace(inv.logTypes[1], "_log", "") \o "_planks"

\* what the planner returns: a decision, or null; Pass is a step of the planner whose
\* condition does not hold, so that the next step is tried
Plan(action, target, reason) ==
  [kind |-> "decision", decision |-> Decision(action, Str(target), Str(reason))]
NoDecision(kind) == [kind |-> kind, decision |-> Decision("", Undefined, Undefined)]
Pass == NoDecision("pass")
OrElse(step, rest) == IF step # Pass THEN step ELSE rest

\* getPickaxeAction, Step 1 and Step 2: goals.js:85-94
WoodSteps(inv, bot) ==
  IF inv.logs = 0 /\ inv.planks < 3
  THEN Plan("mine", findNearbyLogType(bot), "Need wood for tools")
  ELSE IF inv.logs > 0 /\ inv.planks < 5
  THEN Plan("craft", getPlankTypeFromLogs(inv), "Converting logs to planks")
  ELSE Pass

\* Step 3: goals.js:97-99
NewTableStepIgnoringHeld(inv, nearbyTable) ==
  IF nearbyTable = NoBlock /\ inv.planks >= 4
  THEN Plan("craft", "crafting_table", "Need crafting table for pickaxe")
  ELSE Pass

NewTableStepAboveFour(inv, nearbyTable) ==
  IF ~inv.hasCraftingTable /\ nearbyTable = NoBlock /\ inv.planks > 4
  THEN Plan("craft", "crafting_table", "Need crafting table for pickaxe")
  ELSE Pass

NewTableStep(inv, nearbyTable) ==
  IF ~inv.hasCraftingTable /\ nearbyTable = NoBlock /\ inv.planks >= 4
  THEN Plan("craft", "crafting_table", "Need crafting table for pickaxe")
  ELSE Pass

\* Step 4: goals.js:102-104
PlaceTableStep(inv, nearbyTable) ==
  IF inv.hasCraftingTable /\ nearbyTable = NoBlock
  THEN Plan("place", "crafting_table", "Placing crafting table")
  ELSE Pass

\* Step 5: goals.js:107-118
FindTableStep(inv, nearbyTable, bot) ==
  IF nearbyTable = NoBlock /\ ~inv.hasCraftingTable
  THEN IF findDistantCraftingTable(bot) # NoBlock
       THEN Plan("goto", "crafting_table", "Going to crafting table")
       ELSE IF inv.planks < 4
       THEN Plan("mine", findNearbyLogType(bot), "Need wood for crafting table")
       ELSE Pass
  ELSE Pass

\* Step 6: goals.js:121-135
ReachTableStep(inv, nearbyTable, bot) ==
  IF inv.sticks >= 2 /\ inv.planks >= 3 /\ nearbyTable = NoBlock
  THEN IF findDistantCraftingTable(bot) # NoBlock
       THEN Plan("goto", "crafting_table", "Walking to crafting table")
       ELSE IF inv.hasCraftingTable
       THEN Plan("place", "crafting_table", "Placing table to craft pickaxe")
       ELSE IF inv.planks >= 4
       THEN Plan("craft", "crafting_table", "Making table for pickaxe")
       ELSE Pass
  ELSE Pass

\* Step 7: goals.js:138-140
SticksStep(inv, nearbyTable) ==
  IF nearbyTable # NoBlock /\ inv.sticks < 2 /\ inv.planks >= 2
  THEN Plan("craft", "stick", "Need sticks for pickaxe")
  ELSE Pass

\* Step 8: goals.js:143-145
PickaxeStepUnderFive(inv, nearbyTable) ==
  IF nearbyTable # NoBlock /\ inv.sticks >= 2 /\ inv.planks >= 3 /\ inv.planks < 5
  THEN Plan("craft", "wooden_pickaxe", "Crafting wooden pickaxe!")
  ELSE Pass

PickaxeStepWithoutTable(inv, nearbyTable) ==
  IF inv.sticks >= 2 /\ inv.planks >= 3 /\ inv.hasCraftingTable
  THEN Plan("craft", "wooden_pickaxe", "Crafting wooden pickaxe!")
  ELSE Pass

PickaxeStep(inv, nearbyTable) ==
  IF nearbyTable # NoBlock /\ inv.sticks >= 2 /\ inv.planks >= 3
  THEN Plan("craft", "wooden_pickaxe", "Crafting wooden pickaxe!")
  ELSE Pass

\* the end of getPickaxeAction: goals.js:148-153
MoreWoodStep(inv, bot) ==
  IF inv.planks < 5 \/ inv.sticks < 2
  THEN Plan("mine", findNearbyLogType(bot), "Need more wood")
  ELSE NoDecision("null")

getPickaxeAction(inv, nearbyTable, bot) ==
  OrElse(WoodSteps(inv, bot),
  OrElse(NewTableStep(inv, nearbyTable),
  OrElse(PlaceTableStep(inv, nearbyTable),
  OrElse(FindTableStep(inv, nearbyTable, bot),
  OrElse(ReachTableStep(inv, nearbyTable, bot),
  OrElse(SticksStep(inv, nearbyTable),
  OrElse(PickaxeStep(inv, nearbyTable),
         MoreWoodStep(inv, bot))))))))

\* GOAL 2: goals.js:29-31
CobblestoneGoal(inv) ==
  IF inv.hasWoodenPickaxe /\ inv.cobblestone < 8
  THEN Plan("mine", "stone", "Need cobblestone for tools")
  ELSE Pass

\* GOAL 3: goals.js:34-44
StoneSticksGoal(inv, bot) ==
  IF inv.cobblestone >= 3 /\ inv.sticks < 2
  THEN IF inv.planks >= 2
       THEN Plan("craft", "stick", "Need sticks for stone pickaxe")
       ELSE IF inv.logs > 0
       THEN Plan("craft", getPlankTypeFromLogs(inv), "Need planks for sticks")
       ELSE Plan("mine", findNearbyLogType(bot), "Need wood for sticks")
  ELSE Pass

\* GOAL 4: goals.js:47-64
StonePickaxeGoalHeldFirst(inv, nearbyTable, bot) ==
  IF inv.cobblestone >= 3 /\ inv.sticks >= 2 /\ ~inv.hasStonePickaxe
  THEN IF inv.hasCraftingTable
       THEN Plan("place", "crafting_table", "Place table for stone pickaxe")
       ELSE IF nearbyTable = NoBlock
       THEN Pass
       ELSE Plan("craft", "stone_pickaxe", "Upgrade to stone pickaxe!")
  ELSE Pass

StonePickaxeGoal(inv, nearbyTable, bot) ==
  IF inv.cobblestone >= 3 /\ inv.sticks >= 2 /\ ~inv.hasStonePickaxe
  THEN IF nearbyTable = NoBlock
       THEN IF inv.hasCraftingTable
            THEN Plan("place", "crafting_table", "Place table for stone pickaxe")
            ELSE IF findDistantCraftingTable(bot) # NoBlock
            THEN Plan("goto", "crafting_table", "Go to crafting table")
            ELSE IF inv.planks >= 4
            THEN Plan("craft", "crafting_table", "Need table for stone pickaxe")
            ELSE Pass
       ELSE Plan("craft", "stone_pickaxe", "Upgrade to stone pickaxe!")
  ELSE Pass

\* GOAL 5: goals.js:67-69
IronGoal(inv) ==
  IF inv.hasStonePickaxe /\ inv.ironOre < 3
  THEN Plan("mine", "iron_ore", "Need iron for better tools")
  ELSE Pass

\* GOAL 6: goals.js:72-74
MoreCobblestoneGoal(inv) ==
  IF inv.hasStonePickaxe /\ inv.cobblestone < 20
  THEN Plan("mine", "stone", "Gathering cobblestone")
  ELSE Pass

getNextAction(bot) ==
  LET inv == analyzeInventory(bot)
      nearbyTable == findNearbyCraftingTable(bot)
  IN IF ~inv.hasWoodenPickaxe
     THEN getPickaxeAction(inv, nearbyTable, bot)
     ELSE OrElse(CobblestoneGoal(inv),
          OrElse(StoneSticksGoal(inv, bot),
          OrElse(StonePickaxeGoal(inv, nearbyTable, bot),
          OrElse(IronGoal(inv),
          OrElse(MoreCobblestoneGoal(inv),
                 Plan("explore", "random", "Looking for resources"))))))

(***************************************************************************)
(* State                                                                   *)
(***************************************************************************)
VARIABLES
  isBusy,                 \* actions.js:14
  currentAction,          \* actions.js:13
  call,                   \* per caller: the executeAction call it has in flight
  isThinking,             \* index.js:25
  lastActionResult,       \* index.js:24
  cognitiveLoopInterval,  \* index.js:23, TRUE when an interval timer is set
  oneShots,               \* pending setTimeout(cognitiveLoop, 2000) callbacks
  tpc,                    \* per tick body: idle, think (awaiting think), exec (awaiting executeAction)
  ev,                     \* what the last macrotask did (observation only)
  reply,                  \* think harness: the outcome of the service call
  bare,                   \* think harness: the compact JSON text of the same decision
  thinkOut,               \* think harness: what think settled with for reply
  bareOut,                \* think harness: what think settled with for bare
  bot,                    \* planner harness: the inventory listing and the blocks around the agent
  planOut,                \* planner harness: what getNextAction returned for bot
  cycle,                  \* plan-then-execute harness: the cycles run so far
  boot,                   \* startup: the entry point, what the services answer, how far main got
  perc,                   \* Baritone loop: what the mod answers, what getPerception settled with
  arena,                  \* fight harness: the entities around the agent, what executeFight engaged
  bl,                     \* Baritone loop: isThinking, the tick bodies, the span the last step left
  mod                     \* the mod: BaritoneController, its HTTP threads and the Baritone process

loopVars == <<isBusy, currentAction, call, isThinking, lastActionResult,
              cognitiveLoopInterval, oneShots, tpc, ev>>
thinkVars == <<reply, bare, thinkOut, bareOut>>
planVars == <<bot, planOut>>
hostVars == <<cycle, boot, perc>>
guestVars == <<arena, bl, mod>>
vars == <<isBusy, currentAction, call, isThinking, lastActionResult,
          cognitiveLoopInterval, oneShots, tpc, ev, reply, bare, thinkOut, bareOut,
          bot, planOut, cycle, boot, perc, arena, bl, mod>>

Ticks == 1..MaxTicks
Exts == (MaxTicks + 1)..(MaxTicks + MaxExt)
Callers == Ticks \cup Exts

Null == Val("null", "")

\* the result objects of actions.js:423-428, actions.js:418, index.js:195 and index.js:200-204;
\* a field the object literal does not have is Undefined
Result(a, t, ok, e) == [nul |-> FALSE, action |-> a, target |-> t, success |-> ok, error |-> e]
NullResult == [nul |-> TRUE, action |-> Undefined, target |-> Undefined, success |-> FALSE, error |-> Undefined]
BusyResult == Result(Undefined, Undefined, FALSE, Str("Bot is busy"))
WaitResult == Result(Str("wait"), Undefined, TRUE, Undefined)
ErrorResult(msg) == Result(Str("error"), Undefined, FALSE, Str(msg))

Call(stage, a, t) == [stage |-> stage, action |-> a, target |-> t]
NoCall == Call("none", "", Undefined)

\* what the world answers to the synchronous queries of a handler
Envs == [known : BOOLEAN,           \* mcData.blocksByName / itemsByName has the target
         found : BOOLEAN,           \* findBlock, the entity search or the inventory search finds it
         recipes : BOOLEAN,         \* recipesFor with the found table (or none) is non-empty
         recipesNoTable : BOOLEAN,  \* recipesFor without table is non-empty
         requiresTable : BOOLEAN,   \* recipes[0].requiresTable
         far : BOOLEAN,             \* the entity is farther than four attack ranges
         weapon : BOOLEAN,          \* a sword is in the inventory
         more : BOOLEAN]            \* a placement spot and face are left to try

ActionKinds == {"mine", "craft", "place", "explore", "fight", "eat", "chat", "wait", "goto"}

\* the decisions the loop and the other callers are run with: one per action kind,
\* with a target that fits the kind
TargetOf(a) ==
  CASE a = "mine" -> Str("oak_log")
    [] a \in {"craft", "place", "goto"} -> Str("crafting_table")
    [] a = "explore" -> Str("random")
    [] a = "fight" -> Str("zombie")
    [] a = "eat" -> Str("bread")
    [] a = "chat" -> Str("hello")
    [] a = "wait" -> Str("idle")
    [] OTHER -> Str("Steve")

\* the answers that matter when the handler of an action starts, and when a stage resumes
EnvBase == [known |-> TRUE, found |-> TRUE, recipes |-> TRUE, recipesNoTable |-> TRUE,
            requiresTable |-> FALSE, far |-> FALSE, weapon |-> FALSE, more |-> FALSE]

CraftEnvs ==
  {e \in Envs : /\ ~e.far /\ ~e.weapon /\ ~e.more
                /\ ~e.known => (e.found /\ e.recipes /\ e.recipesNoTable /\ ~e.requiresTable)
                /\ ~e.recipes => (e.found /\ ~e.requiresTable)
                /\ e.recipes => e.recipesNoTable}

StartEnvs(action) ==
  CASE action \in {"mine", "goto"} ->
         {[EnvBase EXCEPT !.known = k, !.found = f] : k \in BOOLEAN, f \in BOOLEAN}
    [] action = "craft" -> CraftEnvs
    [] action = "fight" ->
         {[EnvBase EXCEPT !.found = f, !.far = d, !.weapon = w] :
            f \in BOOLEAN, d \in BOOLEAN, w \in BOOLEAN}
    [] action \in {"place", "eat"} ->
         {[EnvBase EXCEPT !.found = f] : f \in BOOLEAN}
    [] OTHER -> {EnvBase}

ResumeEnvs(stage) ==
  CASE stage = "fight_goto" -> {[EnvBase EXCEPT !.weapon = w] : w \in BOOLEAN}
    [] stage \in {"place_equip", "place_try"} -> {[EnvBase EXCEPT !.more = m] : m \in BOOLEAN}
    [] OTHER -> {EnvBase}

(***************************************************************************)
(* actions.js: the handlers.  A handler runs to its first await            *)
(* (HandlerStart) and resumes when what it awaits settles (HandlerResume). *)
(* The outcome is Await(stage), Done (returned) or Throw(msg).             *)
(***************************************************************************)
Await(stage) == [kind |-> "await", stage |-> stage, msg |-> ""]
Done == [kind |-> "done", stage |-> "none", msg |-> ""]
Throw(msg) == [kind |-> "throw", stage |-> "none", msg |-> msg]

\* executeMine up to `await bot.collectBlock.collect` (index.js:67 loads the plugin)
executeMine(env) ==
  IF ~env.known THEN Throw("Unknown block type")
  ELSE IF ~env.found THEN Throw("No block found within range")
  ELSE Await("mine_collect")

executeCraftNoRetry(env) ==
  IF ~env.known THEN Throw("Unknown item")
  ELSE IF ~env.recipes THEN Throw("Cannot craft with current inventory")
  ELSE IF env.requiresTable /\ env.found THEN Await("craft_goto")
  ELSE Await("craft_craft")

\* executeCraft up to its first await
executeCraft(env) ==
  IF ~env.known THEN Throw("Unknown item")
  ELSE IF ~env.recipes
       THEN IF ~env.recipesNoTable THEN Throw("Cannot craft with current inventory")
            ELSE Await("craft_notable")
       ELSE IF env.requiresTable /\ env.found THEN Await("craft_goto")
            ELSE Await("craft_craft")

\* executeExplore up to `await Promise.race([movePromise, timeoutPromise])`
executeExplore(env) == Await("explore_race")

\* executeFight after the approach: equip the best weapon, then engage through the pvp plugin
FightEngage(env) == IF env.weapon THEN Await("fight_equip") ELSE Await("fight_poll")

executeFight(env) ==
  IF ~env.found THEN Throw("No entity found nearby")
  ELSE IF env.far THEN Await("fight_goto")
  ELSE FightEngage(env)

executeEat(env) == IF ~env.found THEN Throw("No food in inventory") ELSE Await("eat_equip")

executePlace(env) == IF ~env.found THEN Throw("No item in inventory") ELSE Await("place_equip")

\* executePlace, the loops of actions.js:329-352: placeBlock on the next face of a solid spot, or
\* the throw after the last one (which of the 8 spots and 5 faces is tried is not tracked)
PlaceNext(env) ==
  IF env.more THEN Await("place_try")
  ELSE Throw("Could not find a place to put it")

\* executeChat: bot.chat is synchronous
executeChat(env) == Done

executeWait(env) == Await("wait_sleep")

executeGoto(env) ==
  IF ~env.known THEN Throw("Unknown block type")
  ELSE IF ~env.found THEN Throw("No block found nearby")
  ELSE Await("goto_move")

\* the switch of executeAction, actions.js:435-483
HandlerStart(action, env) ==
  CASE action = "mine" -> executeMine(env)
    [] action = "craft" -> executeCraft(env)
    [] action = "explore" -> executeExplore(env)
    [] action = "fight" -> executeFight(env)
    [] action = "place" -> executePlace(env)
    [] action = "eat" -> executeEat(env)
    [] action = "chat" -> executeChat(env)
    [] action = "wait" -> executeWait(env)
    [] action = "goto" -> executeGoto(env)
    [] OTHER -> Throw("Unknown action")

\* the stages that await a promise of the world-interaction capability
WorldStages == {"mine_collect", "craft_notable", "craft_goto", "craft_craft", "explore_race",
                "fight_goto", "fight_equip", "place_equip", "place_try", "eat_equip",
                "eat_consume", "goto_move"}
\* the stages in which a timer armed by the handler itself is pending
TimerStages == {"explore_race", "fight_poll", "wait_sleep"}

\* the message of the error a promise of the world-interaction capability rejects with
RejectionMessage == "rejected"

\* the handler resumes: the awaited world promise resolved or rejected (event resolve, reject),
\* the handler's timer fired (timer), or the combat poll saw the fight over (poll)
HandlerResume(cl, event, env) ==
  CASE cl.stage = "mine_collect" ->
         IF event = "resolve" THEN Done ELSE Throw(RejectionMessage)
    [] cl.stage = "craft_notable" ->
         IF event = "resolve" THEN Done ELSE Throw(RejectionMessage)
    [] cl.stage = "craft_goto" -> Await("craft_craft")
    [] cl.stage = "craft_craft" ->
         IF event = "resolve" THEN Done ELSE Throw(RejectionMessage)
    [] cl.stage = "explore_race" ->
         IF event = "reject" THEN Throw(RejectionMessage) ELSE Done
    [] cl.stage = "fight_goto" ->
         IF event = "resolve" THEN FightEngage(env) ELSE Throw(RejectionMessage)
    [] cl.stage = "fight_equip" ->
         IF event = "resolve" THEN Await("fight_poll") ELSE Throw(RejectionMessage)
    [] cl.stage = "fight_poll" -> Done
    [] cl.stage = "place_equip" ->
         IF event = "resolve" THEN PlaceNext(env) ELSE Throw(RejectionMessage)
    [] cl.stage = "place_try" ->
         IF event = "resolve" THEN Done ELSE PlaceNext(env)
    [] cl.stage = "eat_equip" ->
         IF event = "resolve" THEN Await("eat_consume") ELSE Throw(RejectionMessage)
    [] cl.stage = "eat_consume" ->
         IF event = "resolve" THEN Done ELSE Throw(RejectionMessage)
    [] cl.stage = "wait_sleep" -> Done
    [] cl.stage = "goto_move" ->
         IF event = "resolve" THEN Done ELSE Throw(RejectionMessage)
    [] OTHER -> Throw("no handler")

(***************************************************************************)
(* The part of the state that the JavaScript code reads and writes, as a   *)
(* record, so that one macrotask is a composition of the functions it runs *)
(***************************************************************************)
Ev(op, who) == [op |-> op, who |-> who, calls |-> {}, gate |-> FALSE, threw |-> Undefined,
                returned |-> FALSE, ret |-> NullResult, started |-> FALSE, env |-> EnvBase,
                carries |-> FALSE, handler |-> "none",
                plan |-> [kind |-> "none", decision |-> [action |-> "", target |-> Undefined,
                                                         reason |-> Undefined]]]

Here(op, who) ==
  [isBusy |-> isBusy, currentAction |-> currentAction, call |-> call,
   isThinking |-> isThinking, lastActionResult |-> lastActionResult, tpc |-> tpc,
   ev |-> Ev(op, who)]

Becomes(s) ==
  /\ isBusy' = s.isBusy
  /\ currentAction' = s.currentAction
  /\ call' = s.call
  /\ isThinking' = s.isThinking
  /\ lastActionResult' = s.lastActionResult
  /\ tpc' = s.tpc
  /\ ev' = s.ev

Calls(s, f) == [s EXCEPT !.ev.calls = @ \cup {f}]

\* whether the result being returned has the action and the target executeAction was called
\* with, actions.js:414
Carries(s, action, target) ==
  [s EXCEPT !.ev.carries = (s.ev.ret.action = Str(action) /\ s.ev.ret.target = target)]

\* the catch of executeExplore, actions.js:181-190: bot.pathfinder.stop() when the race
\* rejected, by the timer or by the movement
HandlerCatchOnFailureOnly(s, cl, event) ==
  IF cl.stage = "explore_race" /\ event = "reject"
  THEN Calls(s, "pathfinder.stop")
  ELSE s

HandlerCatch(s, cl, event) ==
  IF cl.stage = "explore_race" /\ event \in {"timer", "reject"}
  THEN Calls(s, "pathfinder.stop")
  ELSE s

CombatEndPollOnly(s, cl, event) ==
  IF cl.stage = "fight_poll" /\ event = "poll" THEN Calls(s, "pvp.stop") ELSE s

\* the callback that resolves the promise the handler of a fight awaits, actions.js:234-251:
\* the poll that sees the fight over (actions.js:239-241) and the 30 second timer
\* (actions.js:247-249) both call bot.pvp.stop() before resolve()
CombatEnd(s, cl, event) ==
  IF cl.stage = "fight_poll" /\ event \in {"poll", "timer"} THEN Calls(s, "pvp.stop") ELSE s

(***************************************************************************)
(* actions.js: isExecuting, setBusy, executeAction                         *)
(***************************************************************************)
isExecuting(s) == s.isBusy

setBusyKeep(s, action, busy) ==
  [s EXCEPT !.isBusy = IF busy THEN TRUE ELSE @,
            !.currentAction = IF busy THEN action ELSE @]

setBusy(s, action, busy) ==
  [s EXCEPT !.isBusy = busy,
            !.currentAction = IF busy THEN action ELSE Null]

\* the early return of actions.js:416-419
executeActionBusy(s, c) ==
  [s EXCEPT !.ev.returned = TRUE, !.ev.ret = BusyResult]

\* the catch, the finally and the return of actions.js:485-492
executeActionReturn(s, c, h) ==
  LET cl == s.call[c]
      result == IF h.kind = "done"
                THEN Result(Str(cl.action), cl.target, TRUE, Null)
                ELSE Result(Str(cl.action), cl.target, FALSE, Str(h.msg))
      s1 == setBusy(s, Null, FALSE)
      s2 == [s1 EXCEPT !.call[c] = NoCall, !.ev.returned = TRUE, !.ev.ret = result,
                       !.ev.handler = h.kind]
  IN Carries(s2, cl.action, cl.target)

\* the handler of call c reached outcome h: it awaits again, or executeAction returns
executeActionSettle(s, c, h) ==
  IF h.kind = "await"
  THEN LET s1 == [s EXCEPT !.call[c] = Call(h.stage, @.action, @.target)]
       IN IF h.stage = "fight_poll" THEN Calls(s1, "pvp.attack") ELSE s1
  ELSE executeActionReturn(s, c, h)

executeActionNoGuard(s, c, decision, env) ==
  LET s1 == setBusy(Calls(s, "executeAction"), Str(decision.action), TRUE)
      s2 == [s1 EXCEPT !.call[c] = Call("sync", decision.action, decision.target),
                       !.ev.started = TRUE]
  IN executeActionSettle(s2, c, HandlerStart(decision.action, env))

\* executeAction from its entry to its first suspension or its return
executeAction(s, c, decision, env) ==
  IF s.isBusy
  THEN Carries(executeActionBusy(Calls(s, "executeAction"), c), decision.action, decision.target)
  ELSE LET s1 == setBusy(Calls(s, "executeAction"), Str(decision.action), TRUE)
           s2 == [s1 EXCEPT !.call[c] = Call("sync", decision.action, decision.target),
                            !.ev.started = TRUE, !.ev.env = env]
       IN executeActionSettle(s2, c, HandlerStart(decision.action, env))

(***************************************************************************)
(* index.js: cognitiveLoop                                                 *)
(***************************************************************************)
\* what getNextAction does in a tick: it returns a decision, returns null, or throws
PlannerActions == {"mine", "craft", "place", "goto", "explore"}
NoPlan(k) == [kind |-> k, decision |-> Decision("", Undefined, Undefined)]
PlanOutcomes ==
  {[kind |-> "decision", decision |-> Decision(a, TargetOf(a), Str("auto"))] : a \in PlannerActions}
  \cup {NoPlan("null"), NoPlan("throw")}

loopCatchNoFinally(s, t, msg) ==
  [s EXCEPT !.ev.threw = Str(msg),
            !.lastActionResult = ErrorResult(msg),
            !.tpc[t] = "idle"]

\* the catch and the finally of index.js:198-207
loopCatch(s, t, msg) ==
  [s EXCEPT !.ev.threw = Str(msg),
            !.lastActionResult = ErrorResult(msg),
            !.isThinking = FALSE,
            !.tpc[t] = "idle"]

\* index.js:193 after executeAction returned, and the finally
loopStore(s, t) ==
  [s EXCEPT !.lastActionResult = s.ev.ret,
            !.isThinking = FALSE,
            !.tpc[t] = "idle"]

\* index.js:191-196: execute the decision unless it is wait
loopAct(s, t, decision, env) ==
  IF decision.action # "wait"
  THEN LET s1 == executeAction(s, t, decision, env)
       IN IF s1.ev.returned THEN loopStore(s1, t)
          ELSE [s1 EXCEPT !.tpc[t] = "exec"]
  ELSE [s EXCEPT !.lastActionResult = WaitResult,
                 !.isThinking = FALSE,
                 !.tpc[t] = "idle"]

\* the gate of index.js:165
GateThinkingOnly(s) == s.isThinking
GateOpen(s) == FALSE
Gate(s) == s.isThinking \/ isExecuting(s)

\* perceive and formatPerceptionForLLM of perception.js, called at index.js:184-185: a facet
\* that is not available degrades to a default, the tick does not fail
perceive(s) == Calls(s, "perceive")

\* index.js:175, the call of getNextAction, and what it returned
loopPlan(s, plan) == [Calls(s, "getNextAction") EXCEPT !.ev.plan = plan]

cognitiveLoopThinkFirst(s, t, plan, env) ==
  IF Gate(s) THEN [s EXCEPT !.ev.gate = TRUE]
  ELSE LET s1 == loopPlan([s EXCEPT !.isThinking = TRUE], plan)
       IN IF plan.kind = "throw" THEN loopCatch(s1, t, "getNextAction failed")
          ELSE [Calls(perceive(s1), "think") EXCEPT !.tpc[t] = "think"]

\* cognitiveLoop from its entry to its first suspension or its return
cognitiveLoop(s, t, plan, env) ==
  IF Gate(s) THEN [s EXCEPT !.ev.gate = TRUE]
  ELSE LET s1 == loopPlan([s EXCEPT !.isThinking = TRUE], plan)
       IN IF plan.kind = "throw" THEN loopCatch(s1, t, "getNextAction failed")
          ELSE IF plan.kind = "decision" THEN loopAct(s1, t, plan.decision, env)
          ELSE [Calls(perceive(s1), "think") EXCEPT !.tpc[t] = "think"]

\* cognitiveLoop resumes after `await think(context)` settled with r
cognitiveLoopResume(s, t, r, env) ==
  IF r.status = "rejected" THEN loopCatch(s, t, r.msg)
  ELSE loopAct(s, t, r.decision, env)

\* the tick body a timer callback runs in: the first one that is not in flight
FreeTick == IF \E t \in Ticks : tpc[t] = "idle"
            THEN CHOOSE t \in Ticks : tpc[t] = "idle" /\ \A u \in Ticks : tpc[u] = "idle" => t <= u
            ELSE 0

(***************************************************************************)
(* Replies of the reasoning service                                        *)
(***************************************************************************)
Failure(kind) == [kind |-> kind, text |-> <<>>]
Ok(text) == [kind |-> "ok", text |-> text]
FailureKinds == {"refused", "timeout", "error", "notext"}

\* the members of an object, a value that is Undefined being a member that is absent
RECURSIVE Join(_)
Join(ms) ==
  IF ms = <<>> THEN <<>>
  ELSE IF Len(ms) = 1 THEN ms
  ELSE <<ms[1], Tok("comma")>> \o Join(Tail(ms))

MembersOf(a, t, r) ==
  (IF a.s = "undef" THEN <<>> ELSE <<Member("action", a.s, a.v)>>)
  \o (IF t.s = "undef" THEN <<>> ELSE <<Member("target", t.s, t.v)>>)
  \o (IF r.s = "undef" THEN <<>> ELSE <<Member("reason", r.s, r.v)>>)

\* JSON.stringify(obj): the compact text
Compact(a, t, r) == <<Tok("lb")>> \o Join(MembersOf(a, t, r)) \o <<Tok("rb")>>

\* the same JSON text with a line break and an indent between its tokens
RECURSIVE Spread(_)
Spread(text) ==
  IF Len(text) <= 1 THEN text
  ELSE <<text[1], Tok("nl"), Tok("sp")>> \o Spread(Tail(text))

\* the replies the loop is run with
LoopReplies ==
  {Failure(k) : k \in FailureKinds}
  \cup {Ok(Compact(Str(a), TargetOf(a), Str("x"))) : a \in ActionKinds \cup {"follow"}}
  \cup {Ok(<<Tok("w"), Tok("w")>>)}

\* what think settles with for them
LoopThinkResults == {think(rp) : rp \in LoopReplies}

(***************************************************************************)
(* The program: the mineflayer loop of index.js and the executor           *)
(***************************************************************************)
NotSettled == [status |-> "pending", decision |-> Decision("", Undefined, Undefined), msg |-> ""]
NoLayout == [pre |-> <<>>, fence |-> "none", spread |-> FALSE, post |-> <<>>]
NoSample == [body |-> <<>>, layout |-> NoLayout]

InitLoop ==
  /\ isBusy = FALSE
  /\ currentAction = Null
  /\ call = [c \in Callers |-> NoCall]
  /\ isThinking = FALSE
  /\ lastActionResult = NullResult
  /\ cognitiveLoopInterval = FALSE
  /\ oneShots = 0
  /\ tpc = [t \in Ticks |-> "idle"]
  /\ ev = Ev("init", 0)

InitThinkIdle ==
  /\ reply = Failure("refused")
  /\ bare = NoSample
  /\ thinkOut = NotSettled
  /\ bareOut = NotSettled

NotPlanned == NoDecision("pending")
NoBot == [items |-> <<>>, blocks |-> <<>>, blocksByName |-> {}]

InitPlanIdle ==
  /\ bot = NoBot
  /\ planOut = NotPlanned

\* no process is starting and no perception is being collected
NoBoot == [entry |-> "none", phase |-> "none", model |-> "", tags |-> [kind |-> "none", models |-> <<>>],
           world |-> "none", exit |-> -1]
NoPerc == [answers |-> <<>>, out |-> [status |-> "pending", value |-> <<>>]]

\* no fight is being resolved, the Baritone loop and the mod are not running
NoArena == [entities |-> <<>>, target |-> "", phase |-> "none", entity |-> 0, attacking |-> 0,
            timeouts |-> 0, op |-> "none", out |-> "none"]
NoBl == [isThinking |-> FALSE, interval |-> FALSE, pc |-> <<>>, last |-> "null",
         op |-> "none", who |-> 0]
NoProcess == [kind |-> "none", phase |-> "none"]
NoMod == [currentAction |-> "", currentTarget |-> "", pc |-> <<>>, process |-> NoProcess,
          op |-> "none", who |-> 0, ok |-> FALSE, busy |-> FALSE]

InitGuestIdle ==
  /\ arena = NoArena
  /\ bl = NoBl
  /\ mod = NoMod

InitHostIdle ==
  /\ cycle = 0
  /\ boot = NoBoot
  /\ perc = NoPerc
  /\ InitGuestIdle

Init == InitLoop /\ InitThinkIdle /\ InitPlanIdle /\ InitHostIdle

\* bot.on('spawn') and bot.on('respawn'): startCognitiveLoop, index.js:213-225
startCognitiveLoop ==
  /\ oneShots < MaxOneShots
  /\ IF cognitiveLoopInterval
     THEN UNCHANGED <<cognitiveLoopInterval, oneShots>>
     ELSE /\ oneShots' = oneShots + 1
          /\ cognitiveLoopInterval' = TRUE
  /\ ev' = Ev("start", 0)
  /\ UNCHANGED <<isBusy, currentAction, call, isThinking, lastActionResult, tpc>>
  /\ UNCHANGED thinkVars
  /\ UNCHANGED planVars
  /\ UNCHANGED hostVars
  /\ UNCHANGED guestVars

\* bot.on('death'), 'kicked' and 'end': stopCognitiveLoop, index.js:230-236
stopCognitiveLoop ==
  /\ cognitiveLoopInterval' = FALSE
  /\ ev' = Ev("stop", 0)
  /\ UNCHANGED <<isBusy, currentAction, call, isThinking, lastActionResult, tpc, oneShots>>
  /\ UNCHANGED thinkVars
  /\ UNCHANGED planVars
  /\ UNCHANGED hostVars
  /\ UNCHANGED guestVars

\* a timer callback runs cognitiveLoop
RunTick(op) ==
  \E plan \in (IF Gate(Here(op, FreeTick)) THEN {NoPlan("null")} ELSE PlanOutcomes) :
  \E env \in StartEnvs(plan.decision.action) :
    /\ Gate(Here(op, FreeTick)) \/ FreeTick # 0
    /\ Becomes(cognitiveLoop(Here(op, FreeTick), FreeTick, plan, env))

\* the callback of setTimeout(() => cognitiveLoop(), 2000), index.js:221
OneShotFires ==
  /\ oneShots > 0
  /\ oneShots' = oneShots - 1
  /\ RunTick("tick")
  /\ UNCHANGED cognitiveLoopInterval
  /\ UNCHANGED thinkVars
  /\ UNCHANGED planVars
  /\ UNCHANGED hostVars
  /\ UNCHANGED guestVars

\* the callback of setInterval(cognitiveLoop, thinkInterval), index.js:224
IntervalFires ==
  /\ cognitiveLoopInterval
  /\ RunTick("tick")
  /\ UNCHANGED <<cognitiveLoopInterval, oneShots>>
  /\ UNCHANGED thinkVars
  /\ UNCHANGED planVars
  /\ UNCHANGED hostVars
  /\ UNCHANGED guestVars

\* the promise of think settles and the tick body goes on
ThinkSettles(t) ==
  /\ tpc[t] = "think"
  /\ \E r \in LoopThinkResults :
     \E env \in (IF isBusy THEN {EnvBase} ELSE StartEnvs(r.decision.action)) :
       Becomes(cognitiveLoopResume(Here("thinkDone", t), t, r, env))
  /\ UNCHANGED <<cognitiveLoopInterval, oneShots>>
  /\ UNCHANGED thinkVars
  /\ UNCHANGED planVars
  /\ UNCHANGED hostVars
  /\ UNCHANGED guestVars

\* the handler of call c resumes on event; when executeAction returns to a tick body,
\* the tick body stores the result and leaves
Resume(c, event) ==
  \E env \in ResumeEnvs(call[c].stage) :
    LET s == CombatEnd(HandlerCatch(Here(event, c), call[c], event), call[c], event)
        s1 == executeActionSettle(s, c, HandlerResume(s.call[c], event, env))
    IN Becomes(IF s1.ev.returned /\ c \in Ticks THEN loopStore(s1, c) ELSE s1)

\* a promise of the world-interaction capability that a handler awaits resolves or rejects
WorldSettles(c) ==
  /\ call[c].stage \in WorldStages
  /\ \E event \in {"resolve", "reject"} : Resume(c, event)
  /\ UNCHANGED <<cognitiveLoopInterval, oneShots>>
  /\ UNCHANGED thinkVars
  /\ UNCHANGED planVars
  /\ UNCHANGED hostVars
  /\ UNCHANGED guestVars

\* the timer a handler armed fires: the exploration timeout (actions.js:171-173),
\* the 30 second combat timeout (actions.js:246-250), the 2 second wait (actions.js:371)
HandlerTimerFires(c) ==
  /\ call[c].stage \in TimerStages
  /\ Resume(c, "timer")
  /\ UNCHANGED <<cognitiveLoopInterval, oneShots>>
  /\ UNCHANGED thinkVars
  /\ UNCHANGED planVars
  /\ UNCHANGED hostVars
  /\ UNCHANGED guestVars

\* the combat poll (actions.js:235-243) sees the entity gone, away or dead
CombatPollEnds(c) ==
  /\ call[c].stage = "fight_poll"
  /\ Resume(c, "poll")
  /\ UNCHANGED <<cognitiveLoopInterval, oneShots>>
  /\ UNCHANGED thinkVars
  /\ UNCHANGED planVars
  /\ UNCHANGED hostVars
  /\ UNCHANGED guestVars

\* another caller of the exported executeAction; a call rejected as busy asks the world nothing
ExtDecisions == {Decision(a, TargetOf(a), Str("ext")) : a \in ActionKinds \cup {"follow"}}

ExtCalls(x) ==
  /\ call[x].stage = "none"
  /\ \E d \in ExtDecisions :
     \E env \in (IF isBusy THEN {EnvBase} ELSE StartEnvs(d.action)) :
       Becomes(executeAction(Here("extCall", x), x, d, env))
  /\ UNCHANGED <<cognitiveLoopInterval, oneShots>>
  /\ UNCHANGED thinkVars
  /\ UNCHANGED planVars
  /\ UNCHANGED hostVars
  /\ UNCHANGED guestVars

NextLoop ==
  \/ startCognitiveLoop
  \/ stopCognitiveLoop
  \/ OneShotFires
  \/ IntervalFires
  \/ \E t \in Ticks : ThinkSettles(t)
  \/ \E c \in Callers : WorldSettles(c)
  \/ \E c \in Callers : HandlerTimerFires(c)
  \/ \E c \in Callers : CombatPollEnds(c)

Next == NextLoop

\* the program as it is: the loop is the only caller of executeAction
Spec == Init /\ [][Next]_vars

\* the timers of the JavaScript runtime fire; nothing makes the world settle a promise
FairSpec ==
  /\ Spec
  /\ WF_vars(\E c \in Callers : HandlerTimerFires(c))
  /\ WF_vars(OneShotFires)
  /\ WF_vars(IntervalFires)

NextOpen ==
  \/ NextLoop
  \/ \E x \in Exts : ExtCalls(x)

\* the loop together with other callers of the exported executeAction
SpecOpen == Init /\ [][NextOpen]_vars

(***************************************************************************)
(* think on its own: the reply is drawn from a bounded set of texts, think *)
(* is applied to it and to the compact JSON text it was built from         *)
(***************************************************************************)
ActionValues ==
  {Str(a) : a \in ActionKinds \cup {"follow"}}
  \cup {Str(""), Val("num", "5"), Null, Undefined}
TargetValues == {Undefined, Str("oak_log"), Str(""), Null}
ReasonValues == {Undefined, Str("x"), Str("")}

ObjectBodies == {Compact(a, t, r) : a \in ActionValues, t \in TargetValues, r \in ReasonValues}
OtherBodies ==
  {<<Scalar("null", "")>>, <<Scalar("num", "42")>>, <<Scalar("str", "mine")>>,
   <<Tok("lbr"), Tok("rbr")>>,
   <<Tok("lb"), Member("action", "str", "mine")>>,
   <<Tok("lb"), Member("action", "str", "mine"), Tok("comma"), Member("action", "str", "follow"), Tok("rb")>>,
   <<Tok("w"), Tok("sp"), Tok("w")>>,
   <<>>}
Bodies == ObjectBodies \cup OtherBodies

Prefixes == {<<>>, <<Tok("w"), Tok("sp"), Tok("w"), Tok("sp")>>, <<Tok("w"), Tok("nl")>>,
             <<Tok("w"), Tok("lb"), Tok("w")>>}
Suffixes == {<<>>, <<Tok("nl"), Tok("w"), Tok("sp"), Tok("w")>>, <<Tok("sp"), Tok("w"), Tok("rb")>>}
Layouts == [pre : Prefixes, fence : {"none", "json", "plain"}, spread : BOOLEAN, post : Suffixes]

Wrap(body, layout) ==
  layout.pre
  \o (CASE layout.fence = "json" -> <<Tok("fence"), Tok("json"), Tok("nl")>>
        [] layout.fence = "plain" -> <<Tok("fence"), Tok("nl")>>
        [] OTHER -> <<>>)
  \o (IF layout.spread THEN Spread(body) ELSE body)
  \o (IF layout.fence = "none" THEN <<>> ELSE <<Tok("nl"), Tok("fence")>>)
  \o layout.post

InitThink ==
  /\ InitLoop
  /\ InitPlanIdle
  /\ InitHostIdle
  /\ \/ \E b \in Bodies, l \in Layouts :
          /\ bare = [body |-> b, layout |-> l]
          /\ reply = Ok(Wrap(b, l))
     \/ /\ bare = NoSample
        /\ reply \in {Failure(k) : k \in FailureKinds}
  /\ thinkOut = NotSettled
  /\ bareOut = NotSettled

ThinkOnReply ==
  /\ thinkOut.status = "pending"
  /\ thinkOut' = think(reply)
  /\ UNCHANGED <<reply, bare, bareOut>>
  /\ UNCHANGED loopVars
  /\ UNCHANGED planVars
  /\ UNCHANGED hostVars
  /\ UNCHANGED guestVars

ThinkOnBare ==
  /\ thinkOut.status # "pending"
  /\ bareOut.status = "pending"
  /\ reply.kind = "ok"
  /\ bareOut' = think(Ok(bare.body))
  /\ UNCHANGED <<reply, bare, thinkOut>>
  /\ UNCHANGED loopVars
  /\ UNCHANGED planVars
  /\ UNCHANGED hostVars
  /\ UNCHANGED guestVars

NextThink == ThinkOnReply \/ ThinkOnBare

ThinkSpec == InitThink /\ [][NextThink]_vars

(***************************************************************************)
(* getNextAction on its own: the inventory listing and the blocks around   *)
(* the agent are drawn from bounded sets and getNextAction is applied      *)
(***************************************************************************)
\* mcData.blocksByName of a current game version, and of one without the newer woods
ModernBlocks == NamedLogs \cup {"crafting_table", "stone", "iron_ore"}
OlderBlocks == ModernBlocks \ {"cherry_log", "mangrove_log"}

\* the log stacks of the listing, in each order, and the other stacks, in one order
\* (the planner reads the order of the listing only through logTypes)
LogStacks ==
  {<<>>,
   <<Item("birch_log", 2)>>,
   <<Item("stripped_oak_log", 1)>>,
   <<Item("birch_log", 2), Item("stripped_oak_log", 1)>>,
   <<Item("stripped_oak_log", 1), Item("birch_log", 2)>>}

OtherStacks ==
  <<Item("oak_planks", 2), Item("birch_planks", 2), Item("spruce_planks", 3),
    Item("stick", 2), Item("cobblestone", 3), Item("cobblestone", 8), Item("raw_iron", 3),
    Item("iron_ore", 2),
    Item("crafting_table", 1), Item("wooden_pickaxe", 1), Item("stone_pickaxe", 1)>>

Pick(S) ==
  LET idx == SelectSeq([i \in 1..Len(OtherStacks) |-> i], LAMBDA i : i \in S)
  IN [j \in 1..Len(idx) |-> OtherStacks[idx[j]]]

Listings ==
  {items \in {logs \o Pick(S) : logs \in LogStacks, S \in SUBSET (1..Len(OtherStacks))} :
     Len(items) <= MaxStacks}

\* the crafting tables around the agent, nearest first
Table(dist, visible) == Block("crafting_table", dist, visible)
TableScenes ==
  {<<>>,
   <<Table(2, TRUE)>>, <<Table(2, FALSE)>>,
   <<Table(10, TRUE)>>, <<Table(10, FALSE)>>,
   <<Table(40, TRUE)>>,
   <<Table(1, FALSE), Table(3, TRUE)>>,
   <<Table(2, FALSE), Table(10, TRUE)>>,
   <<Table(10, FALSE), Table(32, TRUE)>>}

\* the log blocks around the agent, nearest first, with the game version they exist in
LogScenes ==
  {[blocksByName |-> ModernBlocks, logs |-> <<>>],
   [blocksByName |-> ModernBlocks, logs |-> <<Block("birch_log", 6, TRUE)>>],
   [blocksByName |-> ModernBlocks,
    logs |-> <<Block("birch_log", 6, TRUE), Block("oak_log", 20, FALSE)>>],
   [blocksByName |-> ModernBlocks,
    logs |-> <<Block("mangrove_log", 4, TRUE), Block("cherry_log", 9, TRUE)>>],
   [blocksByName |-> OlderBlocks, logs |-> <<Block("spruce_log", 40, TRUE)>>]}

InitPlan ==
  /\ InitLoop
  /\ InitThinkIdle
  /\ InitHostIdle
  /\ \E items \in Listings, tables \in TableScenes, scene \in LogScenes :
       bot = [items |-> items, blocks |-> tables \o scene.logs,
              blocksByName |-> scene.blocksByName]
  /\ planOut = NotPlanned

\* index.js:175: the tick body calls getNextAction(bot)
PlanTick ==
  /\ planOut = NotPlanned
  /\ planOut' = getNextAction(bot)
  /\ UNCHANGED bot
  /\ UNCHANGED loopVars
  /\ UNCHANGED thinkVars
  /\ UNCHANGED hostVars
  /\ UNCHANGED guestVars

NextPlan == PlanTick

PlanSpec == InitPlan /\ [][NextPlan]_vars

(***************************************************************************)
(* Plan-then-execute cycles: a tick calls getNextAction (index.js:175) and *)
(* executeAction runs the decision (index.js:193); every decision succeeds *)
(* with the effect the game gives it, a log block is always in range and a *)
(* placed table stays within reach.  The run starts with an empty          *)
(* inventory and no crafting table in the world.                           *)
(***************************************************************************)
\* the listing after count items of one of names were taken, first stacks first
RECURSIVE Take(_, _, _)
Take(items, names, count) ==
  IF items = <<>> \/ count = 0 THEN items
  ELSE LET item == Head(items)
       IN IF item.name \notin names THEN <<item>> \o Take(Tail(items), names, count)
          ELSE IF item.count > count
          THEN <<Item(item.name, item.count - count)>> \o Tail(items)
          ELSE Take(Tail(items), names, count - item.count)

\* the listings after count items called name were picked up: the stack of that name grows,
\* or a new stack takes a free slot, before or after any other stack
Give(items, name, count) ==
  IF Has(items, name)
  THEN {[i \in 1..Len(items) |->
           IF items[i].name = name /\ \A j \in 1..(i - 1) : items[j].name # name
           THEN Item(name, items[i].count + count)
           ELSE items[i]]}
  ELSE {SubSeq(items, 1, k) \o <<Item(name, count)>> \o SubSeq(items, k + 1, Len(items)) :
          k \in 0..Len(items)}

PlankNames(items) == {items[i].name : i \in {j \in 1..Len(items) : IsPlankName(items[j].name)}}

Held(items, names) == SumCounts(SelectSeq(items, LAMBDA item : item.name \in names))

\* bot.craft(recipe, 1, table) of actions.js:118 and actions.js:138: one run of the recipe
Crafted(items, target) ==
  LET planks == PlankNames(items)
  IN CASE IsPlankName(target) ->
            LET log == Replace(target, "_planks", "_log")
            IN IF Held(items, {log}) >= 1
               THEN Give(Take(items, {log}, 1), target, 4)
               ELSE {items}
       [] target = "crafting_table" ->
            IF Held(items, planks) >= 4
            THEN Give(Take(items, planks, 4), target, 1)
            ELSE {items}
       [] target = "stick" ->
            IF Held(items, planks) >= 2
            THEN Give(Take(items, planks, 2), target, 4)
            ELSE {items}
       [] target = "wooden_pickaxe" ->
            IF Held(items, planks) >= 3 /\ Held(items, {"stick"}) >= 2
            THEN Give(Take(Take(items, planks, 3), {"stick"}, 2), target, 1)
            ELSE {items}
       [] OTHER -> {items}

\* the listings after the decision was executed: collectBlock.collect of one block
\* (actions.js:62-64), bot.craft, bot.placeBlock (actions.js:343)
Executed(items, decision) ==
  CASE decision.action = "mine" -> Give(items, decision.target.v, 1)
    [] decision.action = "craft" -> Crafted(items, decision.target.v)
    [] decision.action = "place" -> {Take(items, {decision.target.v}, 1)}
    [] OTHER -> {items}

\* the crafting tables around the agent after the decision was executed
TablesAfter(b, decision) ==
  LET tables == SelectSeq(b.blocks, LAMBDA blk : blk.name = "crafting_table")
  IN IF decision.action = "place" /\ Has(b.items, decision.target.v)
     THEN <<Table(1, TRUE)>> \o tables
     ELSE tables

\* the log blocks in range at the start of a cycle, nearest first
CycleLogs ==
  {<<Block("oak_log", 5, TRUE)>>,
   <<Block("birch_log", 6, TRUE)>>,
   <<Block("mangrove_log", 4, TRUE), Block("cherry_log", 9, TRUE)>>}

InitCycle ==
  /\ InitLoop
  /\ InitThinkIdle
  /\ \E logs \in CycleLogs :
       bot = [items |-> <<>>, blocks |-> logs, blocksByName |-> ModernBlocks]
  /\ planOut = NotPlanned
  /\ cycle = 0
  /\ boot = NoBoot
  /\ perc = NoPerc
  /\ InitGuestIdle

\* one tick of the loop: plan, execute, and the world as the next tick finds it
PlanAndExecute ==
  /\ cycle < MaxCycles
  /\ ~Has(bot.items, "wooden_pickaxe")
  /\ planOut' = getNextAction(bot)
  /\ \E items \in Executed(bot.items, planOut'.decision), logs \in CycleLogs :
       bot' = [bot EXCEPT !.items = items,
                          !.blocks = TablesAfter(bot, planOut'.decision) \o logs]
  /\ cycle' = cycle + 1
  /\ UNCHANGED <<boot, perc>>
  /\ UNCHANGED guestVars
  /\ UNCHANGED loopVars
  /\ UNCHANGED thinkVars

NextCycle == PlanAndExecute

\* the interval timer of index.js:224 keeps starting ticks
CycleSpec == InitCycle /\ [][NextCycle]_vars /\ WF_vars(PlanAndExecute)

(***************************************************************************)
(* Startup.  index.js: main, createBot, and testConnection of brain.js;    *)
(* index-baritone.js: main.  boot.tags is what GET /api/tags of the        *)
(* reasoning service does, boot.model is OLLAMA_CONFIG.model, boot.world   *)
(* is what the world-interaction capability does:                          *)
(*   ok           the bot is created / the mod answers                     *)
(*   unreachable  the server or the mod cannot be reached                  *)
(*   throws       the capability is missing: the call throws               *)
(***************************************************************************)
StartsWith(name, prefix) ==
  Len(prefix) <= Len(name) /\ SubSeq(name, 1, Len(prefix)) = prefix

\* model.split(':')[0]
BeforeColon(name) ==
  IF ~Includes(name, ":") THEN name
  ELSE LET i == CHOOSE i \in 1..Len(name) :
                  /\ SubSeq(name, i, i) = ":"
                  /\ \A j \in 1..(i - 1) : SubSeq(name, j, j) # ":"
       IN SubSeq(name, 1, i - 1)

Tags(kind, models) == [kind |-> kind, models |-> models]

\* brain.js:221-251; tags.kind: ok (resolved with a models list), nomodels (resolved,
\* response.data.models undefined), refused, timeout (axios.get rejected)
testConnection(tags, model) ==
  IF tags.kind \in {"refused", "timeout"} THEN FALSE
  ELSE LET modelNames == IF tags.kind = "nomodels" THEN <<>> ELSE tags.models
       IN \E i \in 1..Len(modelNames) : StartsWith(modelNames[i], BeforeColon(model))

\* index.js:41-48: createBot up to the end of the probe of the reasoning service
createBotProbe(b) ==
  IF ~testConnection(b.tags, b.model)
  THEN [b EXCEPT !.phase = "exited", !.exit = 1]
  ELSE [b EXCEPT !.phase = "probed"]

\* index.js:51-73 and the catch of main, index.js:272-277: an unreachable server is reported
\* later through the error and end events (index.js:126-138), which do not exit
createBotConnect(b) ==
  IF b.world = "throws"
  THEN [b EXCEPT !.phase = "exited", !.exit = 1]
  ELSE [b EXCEPT !.phase = "running"]

\* index-baritone.js:202-221 and the catch of line 233-236; the reasoning service is not probed
baritoneMain(b) ==
  IF b.world \in {"throws", "unreachable"}
  THEN [b EXCEPT !.phase = "exited", !.exit = 1]
  ELSE [b EXCEPT !.phase = "running"]

\* the model names the service lists, and the configured model
ListedModels == {"llama3:latest", "llama3.1:8b", "mistral:7b", "qwen2.5:7b"}
ConfiguredModels == {"llama3", "llama3.1:8b", "mistral:latest", "phi3"}
ModelLists ==
  {<<>>} \cup {<<a>> : a \in ListedModels}
         \cup {<<a, b>> : a \in ListedModels, b \in ListedModels}
TagReplies ==
  {Tags("refused", <<>>), Tags("timeout", <<>>), Tags("nomodels", <<>>)}
  \cup {Tags("ok", models) : models \in ModelLists}

InitStart ==
  /\ InitLoop
  /\ InitThinkIdle
  /\ InitPlanIdle
  /\ cycle = 0
  /\ perc = NoPerc
  /\ InitGuestIdle
  /\ \E entry \in {"index", "baritone"}, tags \in TagReplies, model \in ConfiguredModels,
        world \in {"ok", "unreachable", "throws"} :
       boot = [entry |-> entry, phase |-> "start", model |-> model, tags |-> tags,
               world |-> world, exit |-> -1]

StartUnchanged ==
  /\ UNCHANGED <<cycle, perc>>
  /\ UNCHANGED guestVars
  /\ UNCHANGED loopVars
  /\ UNCHANGED thinkVars
  /\ UNCHANGED planVars

\* index.js:41: the promise of testConnection settles
ProbeSettles ==
  /\ boot.entry = "index" /\ boot.phase = "start"
  /\ boot' = createBotProbe(boot)
  /\ StartUnchanged

\* index.js:51: mineflayer.createBot
BotCreated ==
  /\ boot.entry = "index" /\ boot.phase = "probed"
  /\ boot' = createBotConnect(boot)
  /\ StartUnchanged

\* index-baritone.js:202: the promise of waitForConnection settles
ModAnswers ==
  /\ boot.entry = "baritone" /\ boot.phase = "start"
  /\ boot' = baritoneMain(boot)
  /\ StartUnchanged

NextStart == ProbeSettles \/ BotCreated \/ ModAnswers

StartSpec == InitStart /\ [][NextStart]_vars

(***************************************************************************)
(* index-baritone.js: getPerception.  perc.answers[i] is what the mod      *)
(* answers to request i of status, position, health, inventory: a value,   *)
(* or "fail" when the request fails.                                       *)
(***************************************************************************)
Facets == <<"status", "position", "health", "inventory">>

Settled(status, value) == [status |-> status, value |-> value]

\* a request of minecraft-client.js: a failed request degrades to the default value, null
FacetDefault == "null"
clientRequest(answer) ==
  IF answer = "fail" THEN Settled("resolved", FacetDefault) ELSE Settled("resolved", answer)

\* Promise.all of index-baritone.js:42: rejected with the first rejection, else resolved with
\* the values in the order of the requests
PromiseAll(settled) ==
  LET rejected == SelectSeq(settled, LAMBDA p : p.status = "rejected")
  IN IF rejected # <<>> THEN Settled("rejected", rejected[1].value)
     ELSE Settled("resolved", [i \in 1..Len(settled) |-> settled[i].value])

\* the perception object of index-baritone.js:49-55
Perception(status, position, health, inventory, lastAction) ==
  [status |-> status, position |-> position, health |-> health, inventory |-> inventory,
   lastAction |-> lastAction]

getPerceptionFirstOnly(answers, lastAction) ==
  LET all == PromiseAll([i \in 1..Len(answers) |-> clientRequest(answers[i])])
  IN IF all.status = "rejected" THEN all
     ELSE Settled("resolved", Perception(all.value[1], all.value[1], all.value[1], all.value[1],
                                         lastAction))

getPerception(answers, lastAction) ==
  LET all == PromiseAll([i \in 1..Len(answers) |-> clientRequest(answers[i])])
  IN IF all.status = "rejected" THEN all
     ELSE Settled("resolved", Perception(all.value[1], all.value[2], all.value[3], all.value[4],
                                         lastAction))

\* what the mod answers to a request
FacetAnswers == {"fail", "a", "b"}

InitPerceive ==
  /\ InitLoop
  /\ InitThinkIdle
  /\ InitPlanIdle
  /\ cycle = 0
  /\ boot = NoBoot
  /\ InitGuestIdle
  /\ \E answers \in [1..Len(Facets) -> FacetAnswers] :
       perc = [answers |-> answers, out |-> Settled("pending", <<>>)]

\* index-baritone.js:136: the tick body awaits getPerception()
Perceives ==
  /\ perc.out.status = "pending"
  /\ perc' = [perc EXCEPT !.out = getPerception(perc.answers, lastActionResult)]
  /\ UNCHANGED <<cycle, boot>>
  /\ UNCHANGED guestVars
  /\ UNCHANGED loopVars
  /\ UNCHANGED thinkVars
  /\ UNCHANGED planVars

NextPerceive == Perceives

PerceiveSpec == InitPerceive /\ [][NextPerceive]_vars

(***************************************************************************)
(* actions.js: executeFight on its own, one call after the other (the      *)
(* executor runs one handler at a time).  arena.entities is                *)
(* Object.values(bot.entities) in its enumeration order, arena.entity the  *)
(* entity the call in flight resolved, arena.attacking the entity the pvp  *)
(* plugin is attacking (0: none), arena.timeouts the 30 second timers of   *)
(* calls that have returned.                                               *)
(***************************************************************************)
Entity(name, dist) == [name |-> name, dist |-> dist, self |-> FALSE, isValid |-> TRUE, health |-> 20]
BotEntity == [name |-> "player", dist |-> 0, self |-> TRUE, isValid |-> TRUE, health |-> 20]

\* actions.js:201-205: the first entity of the enumeration that is not the agent and has the
\* name; an entity that is no longer valid has left bot.entities
resolveEntity(entities, target) ==
  LET hits == {i \in 1..Len(entities) :
                 entities[i].isValid /\ ~entities[i].self /\ entities[i].name = target}
  IN IF hits = {} THEN 0 ELSE CHOOSE i \in hits : \A j \in hits : i <= j

\* actions.js:231, bot.pvp.attack(entity), and actions.js:240 and 248, bot.pvp.stop()
pvpAttack(a) == [a EXCEPT !.phase = "poll", !.attacking = a.entity]
pvpStop(a) == [a EXCEPT !.attacking = 0]

\* actions.js:219-232: equip the best sword when one is held, then engage
fightEquip(a, weapon) == IF weapon THEN [a EXCEPT !.phase = "equip"] ELSE pvpAttack(a)

\* executeFight up to its first await; far: the entity is farther than four attack ranges
fightStart(a, target, far, weapon) ==
  LET e == resolveEntity(a.entities, target)
      a1 == [a EXCEPT !.target = target, !.entity = e, !.op = "fight", !.out = "none"]
  IN IF e = 0 THEN [a1 EXCEPT !.out = "throw"]
     ELSE IF far THEN [a1 EXCEPT !.phase = "goto"]
     ELSE fightEquip(a1, weapon)

\* the awaited approach (actions.js:216) or equip (actions.js:224) settles
fightResume(a, event, weapon) ==
  LET a1 == [a EXCEPT !.op = event]
  IN IF event = "reject" THEN [a1 EXCEPT !.phase = "none", !.out = "throw"]
     ELSE IF a.phase = "goto" THEN fightEquip(a1, weapon)
     ELSE pvpAttack(a1)

\* the condition of actions.js:236-238
DisengageDistance == 20
CombatOver(e) == ~e.isValid \/ e.dist > DisengageDistance \/ e.health <= 0

\* the handler goes on after resolve(): actions.js:257-258
fightReturn(a) == [a EXCEPT !.phase = "none", !.out = "success"]

\* the callback of the poll interval, actions.js:235-243: when the fight is over the interval
\* is cleared, the 30 second timer of actions.js:246 stays armed
checkCombat(a) ==
  IF CombatOver(a.entities[a.entity])
  THEN [fightReturn(pvpStop(a)) EXCEPT !.timeouts = @ + 1, !.op = "poll"]
  ELSE [a EXCEPT !.op = "poll"]

\* the callback of the 30 second timer, actions.js:246-250, of the call in flight
fightTimeout(a) == [fightReturn(pvpStop(a)) EXCEPT !.op = "timeout"]

\* the same callback for a call that has returned: clearInterval and resolve have no effect
fightTimeoutLate(a) == [pvpStop(a) EXCEPT !.timeouts = @ - 1, !.op = "lateTimeout"]

FightTargets == {"zombie", "skeleton", "player"}
EntityKinds == {Entity(n, d) : n \in {"zombie", "skeleton"}, d \in {4, 12}}
Arenas ==
  {<<BotEntity>> \o es :
     es \in UNION {[1..n -> EntityKinds] : n \in 0..MaxEntities}}

InitFight ==
  /\ InitLoop
  /\ InitThinkIdle
  /\ InitPlanIdle
  /\ cycle = 0
  /\ boot = NoBoot
  /\ perc = NoPerc
  /\ bl = NoBl
  /\ mod = NoMod
  /\ \E entities \in Arenas : arena = [NoArena EXCEPT !.entities = entities]

FightUnchanged ==
  /\ UNCHANGED <<bl, mod>>
  /\ UNCHANGED loopVars
  /\ UNCHANGED thinkVars
  /\ UNCHANGED planVars
  /\ UNCHANGED hostVars

\* executeAction runs a fight decision, actions.js:451-452
FightStarts ==
  /\ arena.phase = "none"
  /\ \E target \in FightTargets, far \in BOOLEAN, weapon \in BOOLEAN :
       arena' = fightStart(arena, target, far, weapon)
  /\ FightUnchanged

FightWorldSettles ==
  /\ arena.phase \in {"goto", "equip"}
  /\ \E event \in {"resolve", "reject"}, weapon \in BOOLEAN :
       arena' = fightResume(arena, event, weapon)
  /\ FightUnchanged

\* the world: the entity of the call in flight walks away, is killed, or leaves
EntityChanges ==
  /\ arena.phase = "poll"
  /\ ~CombatOver(arena.entities[arena.entity])
  /\ \/ arena' = [arena EXCEPT !.entities[arena.entity].dist = DisengageDistance + 1, !.op = "world"]
     \/ arena' = [arena EXCEPT !.entities[arena.entity].health = 0, !.op = "world"]
     \/ arena' = [arena EXCEPT !.entities[arena.entity].isValid = FALSE, !.op = "world"]
  /\ FightUnchanged

\* the poll interval of the call in flight fires
FightPollFires ==
  /\ arena.phase = "poll"
  /\ CombatOver(arena.entities[arena.entity]) => arena.timeouts < MaxFightTimeouts
  /\ arena' = checkCombat(arena)
  /\ FightUnchanged

\* the 30 second timer of the call in flight fires
FightTimeoutFires ==
  /\ arena.phase = "poll"
  /\ arena' = fightTimeout(arena)
  /\ FightUnchanged

\* the 30 second timer of a call that has returned fires
FightTimeoutFiresLate ==
  /\ arena.timeouts > 0
  /\ arena' = fightTimeoutLate(arena)
  /\ FightUnchanged

NextFight ==
  \/ FightStarts
  \/ FightWorldSettles
  \/ EntityChanges
  \/ FightPollFires
  \/ FightTimeoutFires
  \/ FightTimeoutFiresLate

FightSpec == InitFight /\ [][NextFight]_vars

(***************************************************************************)
(* index-baritone.js: the loop.  bl.pc[t] is where tick body t is:         *)
(*   idle      not running                                                 *)
(*   status    awaiting minecraftClient.getStatus(), line 126              *)
(*   perceive  awaiting getPerception(), line 136                          *)
(*   think     awaiting think(context), line 141                           *)
(*   act       awaiting minecraftClient.executeAction(decision), line 148  *)
(* bl.last is lastActionResult: null, wait, result (what the mod answered) *)
(* or error.                                                               *)
(***************************************************************************)
BlTicks == 1..MaxBlTicks
BlSpan == {"perceive", "think", "act"}

\* index-baritone.js:121-126: cognitiveLoop from its entry to `await getStatus()`
baritoneCognitiveLoop(b, t) ==
  IF b.isThinking THEN [b EXCEPT !.op = "skip", !.who = t]
  ELSE [b EXCEPT !.pc[t] = "status", !.op = "tick", !.who = t]

\* index-baritone.js:126-136: the status request settled; a status that cannot be read ends
\* the tick with an error that leaves cognitiveLoop before the try
baritoneStatus(b, t, status) ==
  IF status = "idle"
  THEN [b EXCEPT !.isThinking = TRUE, !.pc[t] = "perceive", !.op = "enter", !.who = t]
  ELSE [b EXCEPT !.pc[t] = "idle", !.op = status, !.who = t]

\* the catch and the finally of index-baritone.js:153-162, and the normal end of the try
baritoneLeave(b, t, last) ==
  [b EXCEPT !.isThinking = FALSE, !.pc[t] = "idle", !.last = last, !.op = "leave", !.who = t]

\* index-baritone.js:136-141: getPerception settled and the context was formatted, or threw
baritonePerceived(b, t, ok) ==
  IF ok THEN [b EXCEPT !.pc[t] = "think", !.op = "perceived", !.who = t]
  ELSE baritoneLeave(b, t, "error")

\* index-baritone.js:141-151: think settled with a decision
baritoneThought(b, t, action) ==
  IF action # "wait" THEN [b EXCEPT !.pc[t] = "act", !.op = "thought", !.who = t]
  ELSE baritoneLeave(b, t, "wait")

\* index-baritone.js:148: the request to the mod settled
baritoneActed(b, t, ok) == baritoneLeave(b, t, IF ok THEN "result" ELSE "error")

\* index-baritone.js:168-175 and 180-186
baritoneStartCognitiveLoop(b) == [b EXCEPT !.interval = TRUE, !.op = "start", !.who = 0]
baritoneStopCognitiveLoop(b) == [b EXCEPT !.interval = FALSE, !.op = "stop", !.who = 0]

InitBaritone ==
  /\ InitLoop
  /\ InitThinkIdle
  /\ InitPlanIdle
  /\ cycle = 0
  /\ boot = NoBoot
  /\ perc = NoPerc
  /\ arena = NoArena
  /\ mod = NoMod
  /\ bl = [NoBl EXCEPT !.pc = [t \in BlTicks |-> "idle"]]

BaritoneUnchanged ==
  /\ UNCHANGED <<arena, mod>>
  /\ UNCHANGED loopVars
  /\ UNCHANGED thinkVars
  /\ UNCHANGED planVars
  /\ UNCHANGED hostVars

BlStarts ==
  /\ bl' = baritoneStartCognitiveLoop(bl)
  /\ BaritoneUnchanged

BlStops ==
  /\ bl' = baritoneStopCognitiveLoop(bl)
  /\ BaritoneUnchanged

\* the callback of setInterval(cognitiveLoop, thinkInterval), index-baritone.js:174, runs in
\* the first tick body that is not in flight
BlIntervalFires ==
  /\ bl.interval
  /\ \E t \in BlTicks :
       /\ bl.pc[t] = "idle"
       /\ \A u \in BlTicks : bl.pc[u] = "idle" => t <= u
       /\ bl' = baritoneCognitiveLoop(bl, t)
  /\ BaritoneUnchanged

BlStatusSettles(t) ==
  /\ bl.pc[t] = "status"
  /\ \E status \in {"idle", "busy", "unreadable"} : bl' = baritoneStatus(bl, t, status)
  /\ BaritoneUnchanged

BlPerceiveSettles(t) ==
  /\ bl.pc[t] = "perceive"
  /\ \E ok \in BOOLEAN : bl' = baritonePerceived(bl, t, ok)
  /\ BaritoneUnchanged

BlThinkSettles(t) ==
  /\ bl.pc[t] = "think"
  /\ \E action \in validActions : bl' = baritoneThought(bl, t, action)
  /\ BaritoneUnchanged

BlActSettles(t) ==
  /\ bl.pc[t] = "act"
  /\ \E ok \in BOOLEAN : bl' = baritoneActed(bl, t, ok)
  /\ BaritoneUnchanged

NextBaritone ==
  \/ BlStarts
  \/ BlStops
  \/ BlIntervalFires
  \/ \E t \in BlTicks : BlStatusSettles(t)
  \/ \E t \in BlTicks : BlPerceiveSettles(t)
  \/ \E t \in BlTicks : BlThinkSettles(t)
  \/ \E t \in BlTicks : BlActSettles(t)

BaritoneSpec == InitBaritone /\ [][NextBaritone]_vars

(***************************************************************************)
(* The mod: HttpCommandServer.java, BaritoneController (lines 258-520).    *)
(* Handlers run on the threads of a fixed pool (line 35), tick runs on the *)
(* game thread; currentAction and currentTarget are plain fields, so the   *)
(* statements of a handler interleave with those of tick and of the other  *)
(* handlers.  mod.pc[h] is where pool thread h is:                         *)
(*   idle      not in executeCommand                                       *)
(*   set       an execute method has assigned currentAction and has not    *)
(*             yet called Baritone (e.g. between lines 384 and 387)        *)
(*   stopping  executeStop between cancelEverything() and line 447         *)
(* mod.process is Baritone's process: requested by a call of the API       *)
(* (mine, setGoalAndPath, explore, follow), in control once Baritone's own *)
(* tick handler has picked it up, none when it has finished.               *)
(***************************************************************************)
HttpThreads == 1..MaxHttp
HttpIdle == [at |-> "idle", start |-> "none"]

\* HttpCommandServer.java:264-310, the names this model uses
BLOCK_MAP == {"oak_log", "stone"}
\* names found by Registries.BLOCK.get and not in BLOCK_MAP (line 373)
RegistryBlocks == {"obsidian"}
\* the players of client.world.getPlayers() (line 456)
WorldPlayers == {"Steve"}

\* target.split(",") and Integer.parseInt of each part (lines 394-408)
GotoParts(target) ==
  CASE target = "10,64,10" -> [n |-> 3, numeric |-> TRUE]
    [] target = "10,10" -> [n |-> 2, numeric |-> TRUE]
    [] target = "10,z" -> [n |-> 2, numeric |-> FALSE]
    [] OTHER -> [n |-> 1, numeric |-> FALSE]

\* the assignments of currentAction and currentTarget that precede the call of Baritone
modAccept(m, h, action, target, kind) ==
  [m EXCEPT !.currentAction = action, !.currentTarget = target,
            !.pc[h] = [at |-> "set", start |-> kind], !.op = "accept", !.who = h]

\* a return of {"success": false, ...}
modReject(m, h) == [m EXCEPT !.op = "reject", !.who = h, !.ok = FALSE]

\* HttpCommandServer.java:366-384
modExecuteMine(m, h, target) ==
  IF target \notin BLOCK_MAP \cup RegistryBlocks THEN modReject(m, h)
  ELSE modAccept(m, h, "mining", target, "mine")

\* HttpCommandServer.java:392-431, up to the call of Baritone
modExecuteGoto(m, h, target) ==
  LET parts == GotoParts(target) IN
  CASE parts.n \in {2, 3} /\ ~parts.numeric -> modReject(m, h)
    [] parts.n \in {2, 3} -> modAccept(m, h, "going_to", target, "goal")
    [] target \in BLOCK_MAP -> modAccept(m, h, "finding", target, "mine")
    [] OTHER -> modReject(m, h)

\* HttpCommandServer.java:433-435
modExecuteExplore(m, h) == modAccept(m, h, "exploring", "world", "explore")

\* HttpCommandServer.java:453-466
modExecuteFollow(m, h, playerName) ==
  IF playerName \notin WorldPlayers THEN modReject(m, h)
  ELSE modAccept(m, h, "following", playerName, "follow")

\* HttpCommandServer.java:446: baritone.getPathingBehavior().cancelEverything()
modCancelEverything(m, h) ==
  [m EXCEPT !.process = NoProcess, !.pc[h] = [at |-> "stopping", start |-> "none"],
            !.op = "cancel", !.who = h]

\* HttpCommandServer.java:335-364
modExecuteCommand(m, h, action, target) ==
  CASE action = "mine" -> modExecuteMine(m, h, target)
    [] action = "goto" -> modExecuteGoto(m, h, target)
    [] action = "explore" -> modExecuteExplore(m, h)
    [] action = "stop" -> modCancelEverything(m, h)
    [] action = "follow" -> modExecuteFollow(m, h, target)
    [] OTHER -> modReject(m, h)

\* the call of Baritone and the return of success: lines 387-389, 404, 412, 420-421, 426,
\* 437-442, 468-472
modStartProcess(m, h) ==
  [m EXCEPT !.process = [kind |-> m.pc[h].start, phase |-> "requested"],
            !.pc[h] = HttpIdle, !.op = "started", !.who = h, !.ok = TRUE]

\* HttpCommandServer.java:447-450
modExecuteStop(m, h) ==
  [m EXCEPT !.currentAction = "idle", !.currentTarget = "",
            !.pc[h] = HttpIdle, !.op = "stopped", !.who = h, !.ok = TRUE]

\* HttpCommandServer.java:478-488: the busy field of the status
getStatusBusy(m) == m.currentAction # "idle"

\* HttpCommandServer.java:104-112 and 478-488: GET /status
modGetStatus(m, h) == [m EXCEPT !.busy = getStatusBusy(m), !.op = "status", !.who = h]

\* Baritone's tick handler: a requested process takes control
baritoneTick(m) ==
  IF m.process.phase = "requested" THEN [m EXCEPT !.process.phase = "control"] ELSE m

\* HttpCommandServer.java:319-330: tick; mostRecentInControl() is empty unless a process is
\* in control
modTick(m) ==
  IF m.process.phase # "control" /\ m.currentAction # "idle"
  THEN [m EXCEPT !.currentAction = "idle", !.currentTarget = "", !.op = "reset", !.who = 0]
  ELSE [m EXCEPT !.op = "tick", !.who = 0]

ModActions == {"mine", "goto", "explore", "stop", "follow", "craft"}
ModTargets == {"oak_log", "obsidian", "bedrockk", "10,64,10", "10,10", "10,z", "Steve", "Alex"}

InitMod ==
  /\ InitLoop
  /\ InitThinkIdle
  /\ InitPlanIdle
  /\ cycle = 0
  /\ boot = NoBoot
  /\ perc = NoPerc
  /\ arena = NoArena
  /\ bl = NoBl
  /\ mod = [NoMod EXCEPT !.currentAction = "idle", !.pc = [h \in HttpThreads |-> HttpIdle]]

ModUnchanged ==
  /\ UNCHANGED <<arena, bl>>
  /\ UNCHANGED loopVars
  /\ UNCHANGED thinkVars
  /\ UNCHANGED planVars
  /\ UNCHANGED hostVars

\* POST /command on pool thread h, up to the first statement another thread can observe
ModCommand(h) ==
  /\ mod.pc[h].at = "idle"
  /\ \E action \in ModActions, target \in ModTargets :
       mod' = modExecuteCommand(mod, h, action, target)
  /\ ModUnchanged

ModProcessStarts(h) ==
  /\ mod.pc[h].at = "set"
  /\ mod' = modStartProcess(mod, h)
  /\ ModUnchanged

ModStopEnds(h) ==
  /\ mod.pc[h].at = "stopping"
  /\ mod' = modExecuteStop(mod, h)
  /\ ModUnchanged

ModStatus(h) ==
  /\ mod.pc[h].at = "idle"
  /\ mod' = modGetStatus(mod, h)
  /\ ModUnchanged

\* one game tick: Baritone's handler, then the mod's callback
GameTick ==
  /\ mod' = modTick(baritoneTick(mod))
  /\ ModUnchanged

\* the process in control has finished (nothing left to mine, goal reached)
ProcessEnds ==
  /\ mod.process.phase = "control"
  /\ mod' = [mod EXCEPT !.process = NoProcess, !.op = "finished", !.who = 0]
  /\ ModUnchanged

NextMod ==
  \/ \E h \in HttpThreads : ModCommand(h)
  \/ \E h \in HttpThreads : ModProcessStarts(h)
  \/ \E h \in HttpThreads : ModStopEnds(h)
  \/ \E h \in HttpThreads : ModStatus(h)
  \/ GameTick
  \/ ProcessEnds

ModSpec == InitMod /\ [][NextMod]_vars

(***************************************************************************)
(* Properties                                                              *)
(***************************************************************************)
InFlight == {c \in Callers : call[c].stage # "none"}
TicksInFlight == {t \in Ticks : tpc[t] # "idle"}

\* C1: a call of executeAction made while isBusy is true returns the busy result without
\* starting a handler and leaves isBusy, currentAction and the call in flight as they were;
\* a call in flight that ends returns the result of its own action and target, and it is in
\* that step that the executor goes back to idle.
C1_BusyCallRejected ==
  [][ /\ ("executeAction" \in ev'.calls /\ isBusy)
         => /\ ev'.returned /\ ev'.ret = BusyResult /\ ~ev'.started
            /\ isBusy' = isBusy /\ currentAction' = currentAction /\ call' = call
      /\ \A c \in Callers :
           (call[c].stage # "none" /\ call'[c].stage = "none")
           => /\ ev'.returned
              /\ ev'.ret.action = Str(call[c].action) /\ ev'.ret.target = call[c].target
              /\ isBusy /\ ~isBusy' /\ currentAction' = Null
    ]_vars

C1_Witness ==
  /\ ev.returned /\ ev.ret = BusyResult
  /\ isBusy /\ InFlight # {}

\* C2: in the mineflayer loop at most one tick body is in flight and at most one handler runs,
\* and a tick body calls the planner only when no tick body and no handler is in flight.
C2_OneTickAtATime ==
  /\ [](Cardinality(TicksInFlight) <= 1 /\ Cardinality(InFlight) <= 1)
  /\ [][ "getNextAction" \in ev'.calls => (TicksInFlight = {} /\ InFlight = {}) ]_vars

C2_Witness ==
  /\ ev.op = "tick" /\ ev.gate
  /\ \E t \in Ticks : tpc[t] = "exec" /\ call[t].stage # "none"

\* C3: a timer callback that finds the thinking gate or the busy flag set calls none of
\* getNextAction, perceive, think and executeAction, changes neither lastActionResult nor the
\* gates nor any call or tick body in flight, and leaves no timer behind for the skipped tick.
C3_SkippedTickDoesNothing ==
  [][ (ev'.op = "tick" /\ (isThinking \/ isBusy))
      => /\ ev'.calls = {} /\ ev'.gate
         /\ UNCHANGED <<lastActionResult, isThinking, isBusy, currentAction, call, tpc>>
         /\ oneShots' <= oneShots /\ cognitiveLoopInterval' = cognitiveLoopInterval
    ]_vars

C3_Witness ==
  /\ ev.op = "tick" /\ ev.gate /\ ev.calls = {}
  /\ isBusy /\ ~isThinking

\* C4: every executeAction call that started a handler eventually returns, with the timers of
\* the runtime firing and the world free never to settle what the handler awaits.
C4_EveryHandlerReturns ==
  \A c \in Callers : (call[c].stage # "none") ~> (call[c].stage = "none")

\* C5: think settles by resolving, and what it resolves with has an action of the closed
\* action enum, a target that is defined and a reason that is not empty.
C5_ThinkAlwaysDecides ==
  thinkOut.status # "pending"
  => /\ thinkOut.status = "resolved"
     /\ thinkOut.decision.action \in ActionKinds
     /\ thinkOut.decision.target # Undefined
     /\ ~Falsy(thinkOut.decision.reason)

C5_Witness ==
  /\ reply.kind = "notext"
  /\ thinkOut.status = "resolved"

\* C6: when the service call fails, the cleaned text does not parse, or the parsed value is not
\* an object, has no string action or has an action outside the enum, think resolves with
\* action wait, target idle and a reason text.
ReplyFails ==
  \/ reply.kind # "ok"
  \/ LET parsed == JSONparse(cleanJsonResponse(reply.text))
     IN \/ ~parsed.ok
        \/ parsed.value.kind # "object"
        \/ parsed.value.action.s # "str"
        \/ parsed.value.action.v \notin ActionKinds

C6_FailureGivesWaitIdle ==
  (thinkOut.status # "pending" /\ ReplyFails)
  => /\ thinkOut.status = "resolved"
     /\ thinkOut.decision.action = "wait"
     /\ thinkOut.decision.target = Str("idle")
     /\ thinkOut.decision.reason.s = "str" /\ thinkOut.decision.reason.v # ""

C6_Witness ==
  /\ reply.kind = "ok"
  /\ JSONparse(cleanJsonResponse(reply.text)).ok
  /\ JSONparse(cleanJsonResponse(reply.text)).value.action = Str("follow")
  /\ thinkOut.status = "resolved" /\ thinkOut.decision.action = "wait"

\* C7: a parsed object whose action is one of the nine kinds mine, craft, place, explore, fight,
\* eat, chat, goto, wait is returned with that action; any other action gives wait/idle.
C7_NineKindsAccepted ==
  (thinkOut.status # "pending" /\ reply.kind = "ok")
  => LET parsed == JSONparse(cleanJsonResponse(reply.text))
     IN (parsed.ok /\ parsed.value.kind = "object" /\ parsed.value.action.s = "str")
        => IF parsed.value.action.v \in ActionKinds
           THEN thinkOut.decision.action = parsed.value.action.v
           ELSE thinkOut.decision.action = "wait" /\ thinkOut.decision.target = Str("idle")

\* C8: the JSON text of a decision with a valid action, inside ```json fences, spread over
\* lines, with prose without braces before or after it, gives the same action, target and
\* reason as the bare JSON text.
Braceless(text) == \A i \in 1..Len(text) : text[i].t \notin {"lb", "rb"}

IsDecisionText(body) ==
  /\ JSONparse(body).ok
  /\ JSONparse(body).value.kind = "object"
  /\ JSONparse(body).value.action.s = "str"
  /\ JSONparse(body).value.action.v \in ActionKinds

C8_WrappedParsesAsBare ==
  (/\ thinkOut.status # "pending" /\ bareOut.status # "pending"
   /\ IsDecisionText(bare.body)
   /\ Braceless(bare.layout.pre) /\ Braceless(bare.layout.post))
  => /\ thinkOut.status = "resolved" /\ bareOut.status = "resolved"
     /\ thinkOut.decision = bareOut.decision

C8_Witness ==
  /\ bare.layout.fence = "json" /\ bare.layout.spread
  /\ bare.layout.pre # <<>> /\ bare.layout.post # <<>>
  /\ Braceless(bare.layout.pre) /\ Braceless(bare.layout.post)
  /\ bareOut.status = "resolved"
  /\ thinkOut.decision = Decision("mine", Str("oak_log"), Str("x"))

C10_BusyIffHandlerRunning ==
  /\ (currentAction # Null) <=> isBusy
  /\ isBusy <=> (Cardinality(InFlight) = 1)
  /\ Cardinality(InFlight) <= 1
  /\ (ev.returned /\ ev.ret.action # Undefined) => (~isBusy /\ currentAction = Null)

C10_Witness ==
  /\ ev.returned /\ ev.ret.action # Undefined /\ ~ev.ret.success
  /\ ev.op \in {"resolve", "reject"}
  /\ ~isBusy

\* C11: when the exploration timer fires while the movement of explore is still awaited,
\* executeAction returns the explore result with success true; a craft, mine or goto call in
\* flight is ended by its timeout, that is, it returns even if the world never settles what the
\* handler awaits (and a return by timeout carries success false).
C11_TimeoutOutcomes ==
  /\ [][ \A c \in Callers :
           (call[c].stage # "none" /\ ev'.op = "timer" /\ ev'.who = c /\ ev'.returned)
           => IF call[c].action = "explore"
              THEN ev'.ret.action = Str("explore") /\ ev'.ret.success
              ELSE call[c].action \in {"craft", "mine", "goto"} => ~ev'.ret.success
       ]_vars
  /\ \A c \in Callers :
       (call[c].stage # "none" /\ call[c].action \in {"craft", "mine", "goto"})
       ~> (call[c].stage = "none")

(***************************************************************************)
(* The planner: the facts getNextAction decides on                         *)
(***************************************************************************)
Facts == analyzeInventory(bot)
StationNear == findNearbyCraftingTable(bot) # NoBlock
StationFar == findDistantCraftingTable(bot) # NoBlock
Planned == planOut # NotPlanned
Returns(action, target) ==
  /\ planOut.kind = "decision"
  /\ planOut.decision.action = action
  /\ planOut.decision.target = Str(target)

\* C13: with a crafting_table item held and no station reachable-near, getNextAction returns
\* place crafting_table, whatever the other inventory facts are.
C13_HeldTableIsPlaced ==
  (Planned /\ Facts.hasCraftingTable /\ ~StationNear)
  => Returns("place", "crafting_table")

C15_GotoBeforeNewTable ==
  /\ (Planned /\ ~Facts.hasCraftingTable /\ ~StationNear /\ StationFar)
     => /\ ~Returns("craft", "crafting_table")
        /\ (planOut.kind = "decision" /\ planOut.decision.target = Str("crafting_table"))
           => Returns("goto", "crafting_table")
  /\ (Planned /\ Returns("craft", "crafting_table"))
     => (~StationNear /\ ~StationFar)

\* C16: without a wooden pickaxe, with logs = 0 and planks < 3, getNextAction returns mine with
\* the name of a log species that has a block within the search radius, and mine oak_log when
\* no log block is within the radius.
LogsInRange ==
  {bot.blocks[i].name : i \in {j \in 1..Len(bot.blocks) :
                                 bot.blocks[j].name \in NamedLogs /\ bot.blocks[j].dist <= LogRadius}}

C16_MinesAFoundSpecies ==
  (Planned /\ ~Facts.hasWoodenPickaxe /\ Facts.logs = 0 /\ Facts.planks < 3)
  => /\ planOut.kind = "decision"
     /\ planOut.decision.action = "mine"
     /\ IF LogsInRange = {}
        THEN planOut.decision.target = Str("oak_log")
        ELSE \E name \in LogsInRange : planOut.decision.target = Str(name)

C16_Witness ==
  /\ Planned /\ ~Facts.hasWoodenPickaxe /\ Facts.logs = 0 /\ Facts.planks < 3
  /\ LogsInRange = {"mangrove_log", "cherry_log"}
  /\ Returns("mine", "cherry_log")

\* C17: without a wooden pickaxe, with logs > 0 and planks < 5, getNextAction returns craft
\* with target <species>_planks, which is a plank item of the game, <species> being the wood
\* species of a log stack of the inventory.
WoodSpecies == {"oak", "birch", "spruce", "jungle", "acacia", "dark_oak", "mangrove", "cherry"}

C17_PlanksOfHeldSpecies ==
  (Planned /\ ~Facts.hasWoodenPickaxe /\ Facts.logs > 0 /\ Facts.planks < 5)
  => /\ planOut.kind = "decision"
     /\ planOut.decision.action = "craft"
     /\ \E species \in WoodSpecies :
          /\ planOut.decision.target = Str(species \o "_planks")
          /\ \E i \in 1..Len(bot.items) :
               bot.items[i].name \in {species \o "_log", "stripped_" \o species \o "_log"}

\* C18 as stated: without a wooden pickaxe, with planks >= 4, no crafting_table item held and
\* no station reachable near or far, getNextAction returns craft crafting_table.
C18_Original ==
  (Planned /\ ~Facts.hasWoodenPickaxe /\ Facts.planks >= 4
   /\ ~Facts.hasCraftingTable /\ ~StationNear /\ ~StationFar)
  => Returns("craft", "crafting_table")

\* C18 as amended: the same, provided no logs are held or planks >= 5 (with logs held and four
\* planks the logs are converted first).
C18_NewTableWhenNoneReachable ==
  (Planned /\ ~Facts.hasWoodenPickaxe /\ Facts.planks >= 4
   /\ (Facts.logs = 0 \/ Facts.planks >= 5)
   /\ ~Facts.hasCraftingTable /\ ~StationNear /\ ~StationFar)
  => Returns("craft", "crafting_table")

C18_Witness ==
  /\ Planned /\ ~Facts.hasWoodenPickaxe /\ Facts.planks = 4 /\ Facts.logs = 0
  /\ Facts.sticks < 2
  /\ ~Facts.hasCraftingTable /\ ~StationNear /\ ~StationFar
  /\ Returns("craft", "crafting_table")

\* C19 as stated: without a wooden pickaxe, with a station reachable-near, sticks >= 2 and
\* planks >= 3, getNextAction returns craft wooden_pickaxe.
C19_Original ==
  (Planned /\ ~Facts.hasWoodenPickaxe /\ StationNear
   /\ Facts.sticks >= 2 /\ Facts.planks >= 3)
  => Returns("craft", "wooden_pickaxe")

\* C19 as amended: the same, provided no logs are held or planks >= 5.
C19_PickaxeAtStation ==
  (Planned /\ ~Facts.hasWoodenPickaxe /\ StationNear
   /\ Facts.sticks >= 2 /\ Facts.planks >= 3
   /\ (Facts.logs = 0 \/ Facts.planks >= 5))
  => Returns("craft", "wooden_pickaxe")

C19_Witness ==
  /\ Planned /\ ~Facts.hasWoodenPickaxe /\ StationNear
  /\ Facts.sticks = 2 /\ Facts.planks = 3 /\ Facts.logs = 0
  /\ ~Facts.hasCraftingTable
  /\ Returns("craft", "wooden_pickaxe")

\* C20 as stated: with a wooden pickaxe held, cobblestone >= 3, sticks >= 2, no stone pickaxe
\* and a station reachable-near, getNextAction returns craft stone_pickaxe.
C20_Original ==
  (Planned /\ Facts.hasWoodenPickaxe /\ Facts.cobblestone >= 3 /\ Facts.sticks >= 2
   /\ ~Facts.hasStonePickaxe /\ StationNear)
  => Returns("craft", "stone_pickaxe")

\* C20 as amended: the same with cobblestone >= 8 (below 8 the planner mines stone).
C20_StonePickaxeAtStation ==
  (Planned /\ Facts.hasWoodenPickaxe /\ Facts.cobblestone >= 8 /\ Facts.sticks >= 2
   /\ ~Facts.hasStonePickaxe /\ StationNear)
  => Returns("craft", "stone_pickaxe")

C20_Witness ==
  /\ Planned /\ Facts.hasWoodenPickaxe /\ Facts.cobblestone = 8 /\ Facts.sticks = 2
  /\ ~Facts.hasStonePickaxe /\ StationNear /\ Facts.hasCraftingTable
  /\ Returns("craft", "stone_pickaxe")

\* C21: with a wooden pickaxe held, cobblestone >= 8, sticks >= 2, no stone pickaxe and no
\* station reachable-near, getNextAction returns a decision that works on the station: place,
\* goto or craft crafting_table, mine of a log species, or craft of planks; it does not return
\* explore.
MinesWood ==
  /\ planOut.kind = "decision"
  /\ planOut.decision.action = "mine"
  /\ \E name \in NamedLogs : planOut.decision.target = Str(name)

CraftsPlanks ==
  /\ planOut.kind = "decision"
  /\ planOut.decision.action = "craft"
  /\ IsPlankName(planOut.decision.target.v)

C21_WorksOnStation ==
  (Planned /\ Facts.hasWoodenPickaxe /\ Facts.cobblestone >= 8 /\ Facts.sticks >= 2
   /\ ~Facts.hasStonePickaxe /\ ~StationNear)
  => /\ \/ Returns("place", "crafting_table")
        \/ Returns("goto", "crafting_table")
        \/ Returns("craft", "crafting_table")
        \/ MinesWood
        \/ CraftsPlanks
     /\ ~Returns("explore", "random")

\* C22: with a stone pickaxe held, cobblestone >= 8 and the iron counter below 3,
\* getNextAction returns mine iron_ore, with or without a wooden pickaxe and for every
\* stick count.
C22_StonePickaxeMinesIron ==
  (Planned /\ Facts.hasStonePickaxe /\ Facts.cobblestone >= 8 /\ Facts.ironOre < 3)
  => Returns("mine", "iron_ore")

\* C23: when a visible log block is within the search radius, a mine decision for wood
\* targets the species of the nearest visible log block.
VisibleLogs ==
  SelectSeq(bot.blocks,
            LAMBDA b : b.name \in NamedLogs /\ b.dist <= LogRadius /\ b.visible)

C23_MinesNearestVisibleSpecies ==
  (Planned /\ MinesWood /\ VisibleLogs # <<>>)
  => planOut.decision.target = Str(VisibleLogs[1].name)

\* C24: a station is reachable-near exactly when some crafting table within the near radius
\* is visible: findNearbyCraftingTable returns no table that is not visible, and it returns a
\* table whenever a visible one is within the radius, also behind a nearer obstructed one.
VisibleTablesNear ==
  SelectSeq(bot.blocks,
            LAMBDA b : b.name = "crafting_table" /\ b.dist <= NearRadius /\ b.visible)

C24_NearIffVisibleInRadius ==
  Planned
  => /\ StationNear => findNearbyCraftingTable(bot).visible
     /\ StationNear <=> VisibleTablesNear # <<>>

\* C25: the counter analyzeInventory derives from iron_ore items does not change when raw_iron
\* is added to the listing, and the one it derives from raw_iron items does not change when
\* iron_ore is added.
Without(name) ==
  [bot EXCEPT !.items = SelectSeq(bot.items, LAMBDA item : item.name # name)]

C25_IronCountersIndependent ==
  Planned
  => /\ Has(bot.items, "iron_ore")
        => analyzeInventory(Without("raw_iron")).ironOre = Facts.ironOre
     /\ Has(bot.items, "raw_iron")
        => analyzeInventory(Without("iron_ore")).ironOre = Facts.ironOre

C30_ExploreStopsPathfinder ==
  [][ \A c \in Callers :
        (call[c].stage = "explore_race" /\ ev' # ev /\ ev'.who = c
         /\ ev'.op \in {"timer", "reject"})
        => /\ "pathfinder.stop" \in ev'.calls
           /\ ev'.returned /\ ev'.ret.action = Str("explore")
           /\ IF ev'.op = "timer"
              THEN ev'.ret.success
              ELSE ~ev'.ret.success /\ ev'.ret.error = Str(RejectionMessage)
    ]_vars

C30_Witness ==
  /\ ev.op = "timer" /\ ev.returned /\ ev.ret.action = Str("explore") /\ ev.ret.success
  /\ "pathfinder.stop" \in ev.calls
  /\ call[ev.who].stage = "none"

\* C29: from an empty inventory with no crafting table in the world, with a log block always
\* in range, every decision succeeding and a placed table staying within reach, the
\* plan-then-execute cycles reach a state in which a wooden pickaxe is held.
C29_ReachesWoodenPickaxe == <>Has(bot.items, "wooden_pickaxe")

C29_Witness ==
  /\ cycle > 0 /\ Has(bot.items, "wooden_pickaxe")
  /\ Returns("craft", "wooden_pickaxe")
  /\ StationNear

\* C27: the process exits at startup only when the world-interaction capability is missing or
\* unreachable; when the probe of the reasoning service fails (the request fails or the
\* configured model is not listed) the process does not exit.
ReasoningAvailable == testConnection(boot.tags, boot.model)

C27_OnlyWorldIsFatal ==
  /\ boot.phase = "exited" => boot.world \in {"throws", "unreachable"}
  /\ (boot.phase # "start" /\ ~ReasoningAvailable /\ boot.world = "ok")
     => boot.phase # "exited"

\* C28: getPerception resolves, for every subset of failing requests, with the four facets:
\* a facet whose request failed has the default value, every other facet has the value the
\* mod answered, and lastAction is the last action result; it does not reject.
FacetOf(p, i) ==
  CASE i = 1 -> p.status [] i = 2 -> p.position [] i = 3 -> p.health [] OTHER -> p.inventory

InFight == \E c \in Callers : call[c].stage = "fight_poll"
FightEnds(c) == call[c].stage = "fight_poll" /\ call'[c].stage # "fight_poll"

C31_FightEndsStopped ==
  /\ [][\A c \in Callers :
          FightEnds(c) =>
            /\ ev'.op \in {"poll", "timer"} /\ ev'.who = c
            /\ "pvp.stop" \in ev'.calls
            /\ ev'.returned /\ ev'.ret.success = TRUE /\ ev'.ret.error = Null]_vars
  /\ InFight ~> ~InFight

C31_Witness ==
  /\ ev.op = "timer" /\ ev.returned
  /\ ev.ret.action = Str("fight") /\ ev.ret.success = TRUE
  /\ "pvp.stop" \in ev.calls

\* C32: when several entities have the target name, the fight engages the nearest of them
Matching(a) ==
  {i \in 1..Len(a.entities) :
     a.entities[i].isValid /\ ~a.entities[i].self /\ a.entities[i].name = a.target}

C32_EngagesNearest ==
  (arena.op = "fight" /\ arena.entity # 0) =>
    \A i \in Matching(arena) : arena.entities[arena.entity].dist <= arena.entities[i].dist

\* C36: once a fight has returned it commands the agent no more, so the fight in flight
\* keeps its engagement until its own poll or timer ends it
C36_FightKeepsEngagement ==
  arena.phase = "poll" => arena.attacking = arena.entity

\* C33: executeCraft resolves recipes with the found station first; when none resolves and
\* the retry without station does, it crafts with that recipe; it throws for missing
\* materials exactly when neither resolves; a failed approach to the station is followed
\* by the craft attempt
CraftStarted ==
  /\ ev.started /\ ev.env.known
  /\ IF ev.returned THEN ev.ret.action = Str("craft") ELSE call[ev.who].action = "craft"

MissingMaterials == Str("Cannot craft with current inventory")

C33_CraftResolution ==
  /\ [](CraftStarted =>
          /\ (ev.returned /\ ev.ret.error = MissingMaterials)
                <=> (~ev.env.recipes /\ ~ev.env.recipesNoTable)
          /\ (~ev.env.recipes /\ ev.env.recipesNoTable) =>
                (~ev.returned /\ call[ev.who].stage = "craft_notable")
          /\ ev.env.recipes =>
                /\ ~ev.returned
                /\ call[ev.who].stage = IF ev.env.requiresTable /\ ev.env.found
                                        THEN "craft_goto" ELSE "craft_craft")
  /\ [][\A c \in Callers :
          /\ (call[c].stage = "craft_goto" /\ ev'.who = c /\ ev'.op \in {"resolve", "reject"}) =>
                (~ev'.returned /\ call'[c].stage = "craft_craft")
          /\ (call[c].stage = "craft_notable" /\ ev'.who = c /\ ev'.op = "resolve") =>
                (ev'.returned /\ ev'.ret.success = TRUE)]_vars

C33_Witness ==
  /\ CraftStarted
  /\ ~ev.env.recipes /\ ev.env.recipesNoTable
  /\ call[ev.who].stage = "craft_notable"

\* C34: every result executeAction returns has the action and the target of the decision it
\* was called with, success true exactly when the handler completed without throwing, and
\* a non-null error exactly when success is false; also the result of a call rejected as busy
C34_ResultShape ==
  ev.returned =>
    /\ ev.carries
    /\ (ev.ret.success = TRUE) <=> (ev.handler = "done")
    /\ (ev.ret.error # Null) <=> (ev.ret.success = FALSE)

C37_NoTickWhileStopped ==
  (ev.op = "tick" /\ ~ev.gate) => cognitiveLoopInterval

\* C38: in the Baritone loop at most one tick body is inside the span from perceive to act
C38_OneTickInSpan ==
  Cardinality({t \in DOMAIN bl.pc : bl.pc[t] \in BlSpan}) <= 1

\* C39: while the Baritone process started by an accepted command has not finished, the
\* status of the mod reports busy
C39_BusyUntilFinished ==
  mod.process.phase # "none" => getStatusBusy(mod)

====
